---- MODULE Spec2Model ----
(***************************************************************************)
(* optimistic-ui: the cache transforms of helpers.ts, the identity and     *)
(* temporary-id utilities of core/utils.ts and the four mutation           *)
(* lifecycles (create, update, delete, delete-with-undo) over one cache    *)
(* key of a TanStack QueryClient.                                          *)
(***************************************************************************)
EXTENDS Integers, Sequences, FiniteSets, TLC

(***************************************************************************)
(* Bounds of the model.                                                    *)
(***************************************************************************)
\* number of mutation invocations (calls of mutate) in one behaviour
MaxInv == 2
\* number of background fetches of the key in one behaviour
MaxFetch == 2
\* length of the arrays the core functions are called with
MaxLen == 3
\* number of ids generateTempId is asked for on its own
MaxTemp == 2
\* number of pages of the paginated values the core functions are called with
MaxPages == 2

Inv == 1..MaxInv

(***************************************************************************)
(* Values.  A JavaScript identifier (string | number | undefined) is a     *)
(* record: its type, for a string its prefix, and what follows.  === is    *)
(* equality of these records, so the number 1 and a string differ.         *)
(***************************************************************************)
Num(n) == [n |-> n, typ |-> "number", pre |-> ""]
Str(p, n) == [n |-> n, typ |-> "string", pre |-> p]
Undefined == [n |-> 0, typ |-> "undefined", pre |-> ""]
\* the empty string '' (the README's placeholder id)
EmptyStr == Str("", 0)
\* marker for "the call threw" (no JavaScript value)
Thrown == [n |-> 0, typ |-> "throw", pre |-> ""]

\* an item: its id field, a second field a custom extractor may read (key),
\* and a payload field (v)
Item(id, key, v) == [id |-> id, key |-> key, v |-> v]
NoItem == Item(Undefined, Undefined, 0)

\* src/unnamed/part_001 (core utils.ts)
defaultGetId(item) ==
  IF item.id = Undefined THEN Thrown ELSE item.id

\* the extractors a caller configures: "default" is no getId at all,
\* "byId" is item => item.id, "byKey" is item => item.key
getIdFromItem(item, getId) ==
  CASE getId = "byId" -> item.id
    [] getId = "byKey" -> item.key
    [] OTHER -> defaultGetId(item)

\* a faulty isTempId: every string is a temporary id
isTempId_AnyString(id) == id.typ = "string"

isTempId(id) == id.typ = "string" /\ id.pre = "temp_"

(***************************************************************************)
(* Pages and cache values.  A page is an array of items or an object; an   *)
(* object is a function from the field names to field values (none: the   *)
(* field is not there, arr: an array of items, val: anything else).        *)
(***************************************************************************)
ConvKeys == <<"items", "todos", "data", "results", "list">>
FieldNames == {"items", "todos", "data", "results", "list", "posts", "total"}

NoField == [k |-> "none", seq |-> <<>>, val |-> 0]
ArrField(s) == [k |-> "arr", seq |-> s, val |-> 0]
ValField(x) == [k |-> "val", seq |-> <<>>, val |-> x]
NoFields == [f \in FieldNames |-> NoField]

ArrPage(s) == [seq |-> s, isArr |-> TRUE, obj |-> NoFields]
ObjPage(fields) == [seq |-> <<>>, isArr |-> FALSE, obj |-> fields]

Absent == [kind |-> "absent", items |-> <<>>, pages |-> <<>>, pageParams |-> <<>>]
Flat(s) == [kind |-> "flat", items |-> s, pages |-> <<>>, pageParams |-> <<>>]
Infinite(pages, params) ==
  [kind |-> "infinite", items |-> <<>>, pages |-> pages, pageParams |-> params]

\* helpers.ts isInfiniteData
isInfiniteData(data) == data.kind = "infinite"

\* the first conventional key of an object page that holds an array (0: none)
FirstArrayKey(page) ==
  LET hits == {k \in 1..Len(ConvKeys) : page.obj[ConvKeys[k]].k = "arr"}
  IN IF hits = {} THEN 0 ELSE CHOOSE k \in hits : \A h \in hits : k <= h

\* helpers.ts extractArrayFromPage: [ok |-> FALSE] is null
extractArrayFromPage(page) ==
  IF page.isArr THEN [seq |-> page.seq, ok |-> TRUE]
  ELSE IF FirstArrayKey(page) # 0
       THEN [seq |-> page.obj[ConvKeys[FirstArrayKey(page)]].seq, ok |-> TRUE]
       ELSE [seq |-> <<>>, ok |-> FALSE]

\* the re-wrapping every paginated transform repeats: the array itself, or
\* { ...pageObj, [key]: updatedArray } for the first array-valued key
RewrapPage(page, updatedArray) ==
  IF page.isArr THEN ArrPage(updatedArray)
  ELSE IF FirstArrayKey(page) # 0
       THEN ObjPage([page.obj EXCEPT ![ConvKeys[FirstArrayKey(page)]] =
                       ArrField(updatedArray)])
       ELSE page

(***************************************************************************)
(* Flat transforms (helpers.ts).                                           *)
(***************************************************************************)
findItemInArray(array, id, getId) ==
  LET hits == {k \in 1..Len(array) : getIdFromItem(array[k], getId) = id}
  IN IF hits = {} THEN [item |-> NoItem, found |-> FALSE, index |-> 0]
     ELSE LET k == CHOOSE k \in hits : \A h \in hits : k <= h
          IN [item |-> array[k], found |-> TRUE, index |-> k]

\* a faulty replaceItemInArray: every item is replaced
replaceItemInArray_All(array, id, newItem, getId) ==
  [k \in 1..Len(array) |-> newItem]

replaceItemInArray(array, id, newItem, getId) ==
  [k \in 1..Len(array) |->
     IF getIdFromItem(array[k], getId) = id THEN newItem ELSE array[k]]

\* a faulty removeItemFromArray: only the first item with the id goes
removeItemFromArray_First(array, id, getId) ==
  LET hits == {k \in 1..Len(array) : getIdFromItem(array[k], getId) = id}
  IN IF hits = {} THEN array
     ELSE LET k == CHOOSE k \in hits : \A h \in hits : k <= h
          IN SubSeq(array, 1, k - 1) \o SubSeq(array, k + 1, Len(array))

removeItemFromArray(array, id, getId) ==
  LET Keep(item) == getIdFromItem(item, getId) # id
  IN SelectSeq(array, Keep)

\* a faulty addItemToArray: the item goes to the end
addItemToArray_Appends(array, newItem) == array \o <<newItem>>

addItemToArray(array, newItem) == <<newItem>> \o array

\* a faulty replaceTempIdInArray: it looks for the server id
replaceTempIdInArray_MatchesServerId(array, tempId, serverId, getId) ==
  [k \in 1..Len(array) |->
     IF getIdFromItem(array[k], getId) = serverId
     THEN [array[k] EXCEPT !.id = serverId]
     ELSE array[k]]

\* every item here is an object, so { ...item, id: serverId } applies
replaceTempIdInArray(array, tempId, serverId, getId) ==
  [k \in 1..Len(array) |->
     IF getIdFromItem(array[k], getId) = tempId
     THEN [array[k] EXCEPT !.id = serverId]
     ELSE array[k]]

(***************************************************************************)
(* Paginated transforms (helpers.ts).                                      *)
(***************************************************************************)
findItemInInfiniteData(infiniteData, id, getId) ==
  LET pages == infiniteData.pages
      hits == {p \in 1..Len(pages) :
                 /\ extractArrayFromPage(pages[p]).ok
                 /\ findItemInArray(extractArrayFromPage(pages[p]).seq, id, getId).found}
  IN IF hits = {} THEN [item |-> NoItem, found |-> FALSE, pageIndex |-> 0, itemIndex |-> 0]
     ELSE LET p == CHOOSE p \in hits : \A h \in hits : p <= h
              r == findItemInArray(extractArrayFromPage(pages[p]).seq, id, getId)
          IN [item |-> r.item, found |-> TRUE, pageIndex |-> p, itemIndex |-> r.index]

replaceItemInInfiniteData(infiniteData, id, newItem, getId) ==
  [infiniteData EXCEPT !.pages =
     [p \in 1..Len(infiniteData.pages) |->
        LET page == infiniteData.pages[p]
            array == extractArrayFromPage(page)
        IN IF ~array.ok THEN page
           ELSE RewrapPage(page, replaceItemInArray(array.seq, id, newItem, getId))]]

\* a faulty removeItemFromInfiniteData: a page becomes its filtered array,
\* the wrapping object is lost
removeItemFromInfiniteData_Unwraps(infiniteData, id, getId) ==
  [infiniteData EXCEPT !.pages =
     [p \in 1..Len(infiniteData.pages) |->
        LET page == infiniteData.pages[p]
            array == extractArrayFromPage(page)
        IN IF ~array.ok THEN page
           ELSE ArrPage(removeItemFromArray(array.seq, id, getId))]]

removeItemFromInfiniteData(infiniteData, id, getId) ==
  [infiniteData EXCEPT !.pages =
     [p \in 1..Len(infiniteData.pages) |->
        LET page == infiniteData.pages[p]
            array == extractArrayFromPage(page)
        IN IF ~array.ok THEN page
           ELSE RewrapPage(page, removeItemFromArray(array.seq, id, getId))]]

\* a faulty addItemToInfiniteData: the item always gets a page of its own
addItemToInfiniteData_AlwaysNewPage(infiniteData, newItem) ==
  IF Len(infiniteData.pages) = 0
  THEN [infiniteData EXCEPT !.pages = <<ArrPage(<<newItem>>)>>,
                            !.pageParams = <<Undefined>>]
  ELSE [infiniteData EXCEPT !.pages = <<ArrPage(<<newItem>>)>> \o infiniteData.pages]

addItemToInfiniteData(infiniteData, newItem) ==
  IF Len(infiniteData.pages) = 0
  THEN [infiniteData EXCEPT !.pages = <<ArrPage(<<newItem>>)>>,
                            !.pageParams = <<Undefined>>]
  ELSE LET firstPage == infiniteData.pages[1]
           array == extractArrayFromPage(firstPage)
       IN IF ~array.ok
          THEN [infiniteData EXCEPT !.pages = <<ArrPage(<<newItem>>)>> \o infiniteData.pages]
          ELSE [infiniteData EXCEPT !.pages =
                  <<RewrapPage(firstPage, <<newItem>> \o array.seq)>>
                    \o Tail(infiniteData.pages)]

replaceTempIdInInfiniteData(infiniteData, tempId, serverId, getId) ==
  [infiniteData EXCEPT !.pages =
     [p \in 1..Len(infiniteData.pages) |->
        LET page == infiniteData.pages[p]
            array == extractArrayFromPage(page)
        IN IF ~array.ok THEN page
           ELSE RewrapPage(page, replaceTempIdInArray(array.seq, tempId, serverId, getId))]]

(***************************************************************************)
(* The cache of one query key, as the QueryClient keeps it.                *)
(***************************************************************************)
\* queryClient.setQueryData(key, data): TanStack Query v5 ignores undefined
setQueryData(old, data) == IF data.kind = "absent" THEN old ELSE data

(***************************************************************************)
(* The updater functions the four onMutate / onSuccess handlers hand to    *)
(* setQueryData, and restoreDeletedItem's.                                 *)
(***************************************************************************)
\* optimistic-create.ts onMutate, the updater of setQueryData
CreateApply(old, itemWithTempId) ==
  IF old.kind = "absent" THEN Flat(<<itemWithTempId>>)
  ELSE IF isInfiniteData(old) THEN addItemToInfiniteData(old, itemWithTempId)
  ELSE Flat(addItemToArray(old.items, itemWithTempId))

\* optimistic-create.ts onSuccess, tempId recognized: replace it
CreateReplaceTempApply(old, data, tempId, serverId, getId) ==
  IF old.kind = "absent" THEN Flat(<<data>>)
  ELSE IF isInfiniteData(old)
       THEN replaceTempIdInInfiniteData(old, tempId, serverId, getId)
  ELSE Flat(replaceTempIdInArray(old.items, tempId, serverId, getId))

\* optimistic-create.ts onSuccess, no temp id: replace the item that has
\* the id of the server's item (array pages only)
CreateFallbackApply(old, data, getId) ==
  LET Swap(array) ==
        [k \in 1..Len(array) |->
           IF getIdFromItem(array[k], getId) = getIdFromItem(data, getId)
           THEN data ELSE array[k]]
  IN IF old.kind = "absent" THEN Flat(<<data>>)
     ELSE IF isInfiniteData(old)
          THEN [old EXCEPT !.pages =
                  [p \in 1..Len(old.pages) |->
                     IF ~old.pages[p].isArr THEN old.pages[p]
                     ELSE ArrPage(Swap(old.pages[p].seq))]]
     ELSE Flat(Swap(old.items))

\* the caller's updater of the README: it toggles the payload field
updater(item) == [item EXCEPT !.v = 1 - item.v]

\* optimistic-update.ts onMutate, the updater of setQueryData
UpdateApply(old, itemId, getId) ==
  IF old.kind = "absent" THEN old
  ELSE IF isInfiniteData(old)
       THEN LET found == findItemInInfiniteData(old, itemId, getId)
            IN IF ~found.found THEN old
               ELSE replaceItemInInfiniteData(old, itemId, updater(found.item), getId)
  ELSE LET found == findItemInArray(old.items, itemId, getId)
       IN IF ~found.found THEN old
          ELSE Flat(replaceItemInArray(old.items, itemId, updater(found.item), getId))

\* optimistic-update.ts onSuccess
UpdateSuccessApply(old, data, getId) ==
  LET serverId == getIdFromItem(data, getId)
  IN IF old.kind = "absent" THEN Flat(<<data>>)
     ELSE IF isInfiniteData(old) THEN replaceItemInInfiniteData(old, serverId, data, getId)
     ELSE Flat(replaceItemInArray(old.items, serverId, data, getId))

\* optimistic-delete.ts onMutate, the updater of setQueryData
DeleteApply(old, itemId, getId) ==
  IF old.kind = "absent" THEN old
  ELSE IF isInfiniteData(old) THEN removeItemFromInfiniteData(old, itemId, getId)
  ELSE Flat(removeItemFromArray(old.items, itemId, getId))

\* optimistic-delete-with-undo.ts onMutate: the search for the item to
\* delete; in paginated data only pages that are arrays are searched
UndoFindDeleted(currentData, id, getId) ==
  IF currentData.kind = "absent" THEN [item |-> NoItem, has |-> FALSE]
  ELSE IF isInfiniteData(currentData)
       THEN LET pages == currentData.pages
                hits == {p \in 1..Len(pages) :
                           /\ pages[p].isArr
                           /\ findItemInArray(pages[p].seq, id, getId).found}
            IN IF hits = {} THEN [item |-> NoItem, has |-> FALSE]
               ELSE LET p == CHOOSE p \in hits : \A h \in hits : p <= h
                    IN [item |-> findItemInArray(pages[p].seq, id, getId).item,
                        has |-> TRUE]
  ELSE LET r == findItemInArray(currentData.items, id, getId)
       IN [item |-> r.item, has |-> r.found]

\* optimistic-delete-with-undo.ts onMutate, the updater of setQueryData
UndoRemoveApply(old, id, getId) ==
  IF old.kind = "absent" THEN old
  ELSE IF isInfiniteData(old) THEN removeItemFromInfiniteData(old, id, getId)
  ELSE Flat(removeItemFromArray(old.items, id, getId))

\* a faulty restoreDeletedItem: the item goes to the end of a flat array
restoreDeletedItem_Appends(old, deletedItem) ==
  IF old.kind = "absent" THEN Flat(<<deletedItem>>)
  ELSE IF isInfiniteData(old) THEN addItemToInfiniteData(old, deletedItem)
  ELSE Flat(old.items \o <<deletedItem>>)

\* optimistic-delete-with-undo.ts restoreDeletedItem
restoreDeletedItem(old, deletedItem) ==
  IF old.kind = "absent" THEN Flat(<<deletedItem>>)
  ELSE IF isInfiniteData(old) THEN addItemToInfiniteData(old, deletedItem)
  ELSE Flat(addItemToArray(old.items, deletedItem))

(***************************************************************************)
(* State.                                                                  *)
(***************************************************************************)
VARIABLES
  cache,        \* the value under the query key
  cfg,          \* the options the bundles were built from (never changes)
  pc,           \* per invocation: where its mutation is
  op,           \* per invocation: which lifecycle it runs
  vars,         \* per invocation: the variables passed to mutate
  ctx,          \* per invocation: the context object its onMutate returned
  undoContext,  \* per closure of the delete-with-undo internal options:
                \* the invocation whose context object `undoContext` holds
  timer,        \* per invocation: the timer its onMutate armed
  nextTemp,     \* what tells the next generateTempId() from the earlier ones
  before,       \* per invocation: the cache when mutate was called
  undone,       \* per invocation: restoreDeletedItem was called for it
  result,       \* per invocation: the data its mutationFn resolved with
  fetch,        \* the background fetch of the key: its state and its number
  fetchAtBegin, \* per invocation: the number of the fetch that was in
                \* flight when its onMutate started (0: none)
  twin,         \* the twin run: the steps the explicit-client bundle made,
                \* and how many of them the ambient bundle has repeated
  probe         \* the call of a core function under examination: its
                \* arguments and, once made, what it returned

vars_all == <<cache, cfg, pc, op, vars, ctx, undoContext, timer, nextTemp,
              before, undone, result, fetch, fetchAtBegin, twin, probe>>

\* what the lifecycles never touch
Aside == <<twin, probe>>

\* the constructor the bundle of invocation i came from: the configured
\* one, or in a twin run optimisticXWithClient for the first invocation and
\* optimisticX for the second
Mode(i) ==
  IF cfg.mode = "twin" THEN (IF i = 1 THEN "client" ELSE "ambient")
  ELSE cfg.mode

\* closure 0 is the one optimisticDeleteWithUndoWithClient builds once for
\* the bundle; closure i is the one the ambient onMutate of invocation i builds
Closures == 0..MaxInv

OnMutateClosure(i) == IF Mode(i) = "client" THEN 0 ELSE i

NoVars == [id |-> Undefined, item |-> NoItem, has |-> FALSE]
ItemVars(x) == [id |-> Undefined, item |-> x, has |-> TRUE]
IdVars(x) == [id |-> x, item |-> NoItem, has |-> TRUE]

NoDeleted == [item |-> NoItem, has |-> FALSE]
NoContext ==
  [tempId |-> Undefined, deletedItem |-> NoDeleted, exists |-> FALSE,
   previousData |-> Absent, timeoutId |-> 0, committed |-> FALSE]
NoTimer == [kind |-> "none", state |-> "none"]
NoTwin == [k |-> 0, phase |-> "none", trace |-> <<>>]
NoProbe == [fn |-> "none"]

(***************************************************************************)
(* The inputs: cached items, initial cache values, options, variables and  *)
(* server answers.                                                         *)
(***************************************************************************)
\* a cached item with server id n: { id: n, key: 'k<n>', v: 0 }
I(n) == Item(Num(n), Str("k", n), 0)

InitCaches ==
  { Absent,
    Flat(<<I(1), I(2)>>),
    Flat(<<I(0), I(1)>>),
    Infinite(<<ArrPage(<<I(1), I(2)>>), ArrPage(<<I(3)>>)>>, <<Undefined, Num(2)>>),
    Infinite(<<ObjPage([NoFields EXCEPT !["items"] = ArrField(<<I(1), I(2)>>),
                                        !["total"] = ValField(3)]),
               ObjPage([NoFields EXCEPT !["data"] = ValField(7),
                                        !["results"] = ArrField(<<I(3)>>)])>>,
             <<Undefined, Num(2)>>),
    Infinite(<<ObjPage([NoFields EXCEPT !["posts"] = ArrField(<<I(1)>>)]),
               ArrPage(<<I(2)>>)>>, <<Undefined, Num(2)>>),
    Infinite(<<>>, <<>>) }

\* ids a bundle is configured with, or mutate is called with
TargetIds == {EmptyStr, Num(1), Str("k", 2)}

\* found: whether the handlers of an ambient bundle find a QueryClient on
\* the mutation they run in (the explicit-client bundles are given theirs);
\* strategy: the delete bundles' option of that name
Configs ==
  { c \in [id : TargetIds, getId : {"default", "byKey"},
           found : BOOLEAN, newItem : {Item(Undefined, Str("k", 8), 0)},
           mode : {"client", "ambient"},
           strategy : {"flat", "infinite"}] :
      c.mode = "client" => c.found }

\* the lookup of the ambient handlers comes back empty
NoClient == cfg.mode = "ambient" /\ ~cfg.found

Ops == {"create", "update", "delete", "deleteWithUndo"}

VarsOf(o) ==
  CASE o = "create" -> {NoVars, ItemVars(Item(Undefined, Str("k", 7), 1))}
    [] o = "update" -> {NoVars, ItemVars(Item(Num(1), Str("k", 1), 1)), ItemVars(I(3))}
    [] OTHER -> {NoVars} \cup {IdVars(x) : x \in {Num(0), Num(1), Num(2)}}

\* what the server may answer to a create of item x
ServerItems(x) ==
  {Item(Num(5), x.key, x.v), Item(Num(2), x.key, 9)}

\* what the server may answer to an update of item x: the item as it
\* stored it, or another item
UpdatedItems(x) ==
  {[x EXCEPT !.v = 9], Item(Num(2), x.key, 9)}

(***************************************************************************)
(* Init.                                                                   *)
(***************************************************************************)
Init ==
  /\ cache \in InitCaches
  /\ cfg \in Configs
  /\ pc = [i \in Inv |-> "idle"]
  /\ op = [i \in Inv |-> "none"]
  /\ vars = [i \in Inv |-> NoVars]
  /\ ctx = [i \in Inv |-> NoContext]
  /\ undoContext = [c \in Closures |-> 0]
  /\ timer = [i \in Inv |-> NoTimer]
  /\ nextTemp = 1
  /\ before = [i \in Inv |-> Absent]
  /\ undone = [i \in Inv |-> FALSE]
  /\ result = [i \in Inv |-> NoItem]
  /\ fetch = [id |-> 0, state |-> "idle"]
  /\ fetchAtBegin = [i \in Inv |-> 0]
  /\ twin = NoTwin
  /\ probe = NoProbe

(***************************************************************************)
(* The lifecycle.  TanStack's mutation runs, for one call of mutate:       *)
(* onMutate (which awaits cancelQueries first), then mutationFn, then      *)
(* onSuccess or onError with the context onMutate returned.                *)
(***************************************************************************)
\* a faulty generateTempId: it returns the same id every time
generateTempId_Same == Str("temp_", 1)

generateTempId == Str("temp_", nextTemp)

\* queryClient.cancelQueries({ queryKey }): the fetch of the key that is in
\* flight is cancelled and its result will not be written
cancelQueries(f) == [f EXCEPT !.state = "idle"]

\* a faulty onMutate: it does not cancel the fetches of the key
Mutate_NoCancel(i, o, v) ==
  /\ pc[i] = "idle"
  /\ \A j \in Inv : j < i => pc[j] # "idle"
  /\ pc' = [pc EXCEPT ![i] = "cancelling"]
  /\ op' = [op EXCEPT ![i] = o]
  /\ vars' = [vars EXCEPT ![i] = v]
  /\ before' = [before EXCEPT ![i] = cache]
  /\ fetchAtBegin' = [fetchAtBegin EXCEPT ![i] =
                        IF fetch.state = "fetching" THEN fetch.id ELSE 0]
  /\ UNCHANGED <<cache, cfg, fetch, ctx, undoContext, timer, nextTemp, undone, result>>

\* mutate(variables) is called on an ambient bundle that finds no
\* QueryClient: onMutate throws 'QueryClient not found. ...' before it
\* touches anything, and mutationFn is never called
MutateThrows(i, o, v) ==
  /\ NoClient
  /\ pc[i] = "idle"
  /\ \A j \in Inv : j < i => pc[j] # "idle"
  /\ pc' = [pc EXCEPT ![i] = "threw"]
  /\ op' = [op EXCEPT ![i] = o]
  /\ vars' = [vars EXCEPT ![i] = v]
  /\ before' = [before EXCEPT ![i] = cache]
  /\ UNCHANGED <<cache, cfg, fetch, fetchAtBegin, ctx, undoContext, timer, nextTemp,
                 undone, result>>

\* onError of an ambient bundle after its onMutate threw: there is no
\* QueryClient and no context, the guard fails and the handler returns
OnErrorNoClient(i) ==
  /\ NoClient
  /\ pc[i] = "threw"
  /\ pc' = [pc EXCEPT ![i] = "failed"]
  /\ UNCHANGED <<cache, cfg, fetch, fetchAtBegin, op, vars, ctx, undoContext, timer,
                 nextTemp, before, undone, result>>

\* mutate(variables) is called: onMutate starts and awaits cancelQueries
Mutate(i, o, v) ==
  /\ ~NoClient
  /\ pc[i] = "idle"
  /\ \A j \in Inv : j < i => pc[j] # "idle"
  /\ pc' = [pc EXCEPT ![i] = "cancelling"]
  /\ op' = [op EXCEPT ![i] = o]
  /\ vars' = [vars EXCEPT ![i] = v]
  /\ before' = [before EXCEPT ![i] = cache]
  /\ fetch' = cancelQueries(fetch)
  /\ fetchAtBegin' = [fetchAtBegin EXCEPT ![i] =
                        IF fetch.state = "fetching" THEN fetch.id ELSE 0]
  /\ UNCHANGED <<cache, cfg, ctx, undoContext, timer, nextTemp, undone, result>>

\* a faulty onMutate of create: it reads its snapshot when it is called,
\* before it awaits cancelQueries
CreateOnMutate_SnapshotAtCall(i) ==
  LET previousData == before[i]
      itemToAdd == IF vars[i].has THEN vars[i].item ELSE cfg.newItem
      tempId == generateTempId
      itemWithTempId == [itemToAdd EXCEPT !.id = tempId]
  IN /\ cache' = setQueryData(cache, CreateApply(cache, itemWithTempId))
     /\ ctx' = [ctx EXCEPT ![i] = [NoContext EXCEPT !.exists = TRUE,
                                                    !.previousData = previousData,
                                                    !.tempId = tempId]]
     /\ nextTemp' = nextTemp + 1
     /\ UNCHANGED <<undoContext, timer>>

\* optimistic-create.ts onMutate, after the await
CreateOnMutate(i) ==
  LET previousData == cache
      itemToAdd == IF vars[i].has THEN vars[i].item ELSE cfg.newItem
      tempId == generateTempId
      itemWithTempId == [itemToAdd EXCEPT !.id = tempId]
  IN /\ cache' = setQueryData(cache, CreateApply(cache, itemWithTempId))
     /\ ctx' = [ctx EXCEPT ![i] = [NoContext EXCEPT !.exists = TRUE,
                                                    !.previousData = previousData,
                                                    !.tempId = tempId]]
     /\ nextTemp' = nextTemp + 1
     /\ UNCHANGED <<undoContext, timer>>

\* optimistic-update.ts onMutate, after the await
UpdateOnMutate(i) ==
  LET previousData == cache
      itemId == IF vars[i].has THEN getIdFromItem(vars[i].item, cfg.getId) ELSE cfg.id
  IN /\ cache' = setQueryData(cache, UpdateApply(cache, itemId, cfg.getId))
     /\ ctx' = [ctx EXCEPT ![i] = [NoContext EXCEPT !.exists = TRUE,
                                                    !.previousData = previousData]]
     /\ UNCHANGED <<undoContext, timer, nextTemp>>

\* a faulty onMutate of delete: it always removes the configured id
DeleteOnMutate_ConfiguredId(i) ==
  /\ cache' = setQueryData(cache, DeleteApply(cache, cfg.id, cfg.getId))
  /\ ctx' = [ctx EXCEPT ![i] = [NoContext EXCEPT !.exists = TRUE,
                                                 !.previousData = cache]]
  /\ UNCHANGED <<undoContext, timer, nextTemp>>

\* optimistic-delete.ts onMutate, after the await
DeleteOnMutate(i) ==
  LET previousData == cache
      itemId == IF vars[i].has THEN vars[i].id ELSE cfg.id
  IN /\ cache' = setQueryData(cache, DeleteApply(cache, itemId, cfg.getId))
     /\ ctx' = [ctx EXCEPT ![i] = [NoContext EXCEPT !.exists = TRUE,
                                                    !.previousData = previousData]]
     /\ UNCHANGED <<undoContext, timer, nextTemp>>

\* a faulty onMutate of delete-with-undo: when the item is not found it
\* goes on as if it had been, with the auto-commit timer and the closure's
\* undoContext
DeleteWithUndoOnMutate_NotFoundArmsCommit(i) ==
  LET previousData == cache
      deletedItem == UndoFindDeleted(cache, cfg.id, cfg.getId)
  IN /\ cache' = setQueryData(cache, UndoRemoveApply(cache, cfg.id, cfg.getId))
     /\ timer' = [timer EXCEPT ![i] = [kind |-> "commit", state |-> "armed"]]
     /\ undoContext' = [undoContext EXCEPT ![OnMutateClosure(i)] = i]
     /\ ctx' = [ctx EXCEPT ![i] = [NoContext EXCEPT !.exists = TRUE,
                                                    !.previousData = previousData,
                                                    !.deletedItem = deletedItem,
                                                    !.timeoutId = i]]
     /\ UNCHANGED nextTemp

\* optimistic-delete-with-undo.ts onMutate, after the await.  The timer of
\* invocation i has handle i.
DeleteWithUndoOnMutate(i) ==
  LET previousData == cache
      deletedItem == UndoFindDeleted(cache, cfg.id, cfg.getId)
  IN IF ~deletedItem.has
     THEN /\ ctx' = [ctx EXCEPT ![i] = [NoContext EXCEPT !.exists = TRUE,
                                                         !.previousData = previousData,
                                                         !.timeoutId = i]]
          /\ timer' = [timer EXCEPT ![i] = [kind |-> "noop", state |-> "armed"]]
          /\ UNCHANGED <<cache, undoContext, nextTemp>>
     ELSE /\ cache' = setQueryData(cache, UndoRemoveApply(cache, cfg.id, cfg.getId))
          /\ timer' = [timer EXCEPT ![i] = [kind |-> "commit", state |-> "armed"]]
          /\ undoContext' = [undoContext EXCEPT ![OnMutateClosure(i)] = i]
          /\ ctx' = [ctx EXCEPT ![i] = [NoContext EXCEPT !.exists = TRUE,
                                                         !.previousData = previousData,
                                                         !.deletedItem = deletedItem,
                                                         !.timeoutId = i]]
          /\ UNCHANGED nextTemp

(***************************************************************************)
(* Identity resolution that fails.  defaultGetId throws when the item has  *)
(* no id; a handler that reaches such an item throws where it stands.      *)
(***************************************************************************)
\* getIdFromItem(item, getId) throws
Raises(item, getId) == getIdFromItem(item, getId) = Thrown

\* array.map and array.filter resolve the id of every item
RaisesInArray(array, getId) ==
  \E k \in 1..Len(array) : Raises(array[k], getId)

\* findItemInArray and the search loops resolve ids up to the first match
RaisesInFind(array, id, getId) ==
  \E k \in 1..Len(array) :
    /\ Raises(array[k], getId)
    /\ \A j \in 1..(k - 1) : getIdFromItem(array[j], getId) # id

\* the transforms of a cache value visit every page whose array extracts
RaisesInData(old, getId) ==
  IF old.kind = "absent" THEN FALSE
  ELSE IF isInfiniteData(old)
       THEN \E p \in 1..Len(old.pages) :
              /\ extractArrayFromPage(old.pages[p]).ok
              /\ RaisesInArray(extractArrayFromPage(old.pages[p]).seq, getId)
  ELSE RaisesInArray(old.items, getId)

\* findItemInInfiniteData: pages in order, up to the first match
RaisesInFindData(old, id, getId) ==
  IF old.kind = "absent" THEN FALSE
  ELSE IF isInfiniteData(old)
       THEN \E p \in 1..Len(old.pages) :
              /\ extractArrayFromPage(old.pages[p]).ok
              /\ RaisesInFind(extractArrayFromPage(old.pages[p]).seq, id, getId)
              /\ \A q \in 1..(p - 1) :
                   ~(/\ extractArrayFromPage(old.pages[q]).ok
                     /\ findItemInArray(extractArrayFromPage(old.pages[q]).seq, id,
                                        getId).found)
  ELSE RaisesInFind(old.items, id, getId)

\* the search of delete-with-undo: array pages only, up to the first match
RaisesInUndoFind(currentData, id, getId) ==
  IF currentData.kind = "absent" THEN FALSE
  ELSE IF isInfiniteData(currentData)
       THEN \E p \in 1..Len(currentData.pages) :
              /\ currentData.pages[p].isArr
              /\ RaisesInFind(currentData.pages[p].seq, id, getId)
              /\ \A q \in 1..(p - 1) :
                   ~(/\ currentData.pages[q].isArr
                     /\ findItemInArray(currentData.pages[q].seq, id, getId).found)
  ELSE RaisesInFind(currentData.items, id, getId)

\* optimistic-update.ts onMutate throws: at the item passed to mutate, in
\* the search, or in the replacement that follows a match
UpdateOnMutateRaises(i) ==
  \/ vars[i].has /\ Raises(vars[i].item, cfg.getId)
  \/ LET itemId == IF vars[i].has THEN getIdFromItem(vars[i].item, cfg.getId) ELSE cfg.id
         found == IF isInfiniteData(cache)
                  THEN findItemInInfiniteData(cache, itemId, cfg.getId).found
                  ELSE cache.kind = "flat"
                       /\ findItemInArray(cache.items, itemId, cfg.getId).found
     IN \/ RaisesInFindData(cache, itemId, cfg.getId)
        \/ found /\ RaisesInData(cache, cfg.getId)

\* optimistic-delete.ts onMutate throws: in the filter
DeleteOnMutateRaises(i) == RaisesInData(cache, cfg.getId)

\* optimistic-delete-with-undo.ts onMutate throws: in the search, or in the
\* filter that follows a match
DeleteWithUndoOnMutateRaises(i) ==
  \/ RaisesInUndoFind(cache, cfg.id, cfg.getId)
  \/ /\ UndoFindDeleted(cache, cfg.id, cfg.getId).has
     /\ RaisesInData(cache, cfg.getId)

\* the onMutate of invocation i throws (optimistic-create.ts onMutate
\* resolves no id)
OnMutateRaises(i) ==
  CASE op[i] = "create" -> FALSE
    [] op[i] = "update" -> UpdateOnMutateRaises(i)
    [] op[i] = "delete" -> DeleteOnMutateRaises(i)
    [] OTHER -> DeleteWithUndoOnMutateRaises(i)

\* a faulty onMutate: it catches the error of an item without id, skips the
\* item and writes what it made of the others
OnMutateThrows_WritesSkipping(i) ==
  /\ pc[i] = "cancelling"
  /\ OnMutateRaises(i)
  /\ pc' = [pc EXCEPT ![i] = "threw"]
  /\ cache' = IF op[i] = "update"
              THEN UpdateApply(cache, cfg.id, cfg.getId)
              ELSE IF op[i] = "delete"
              THEN DeleteApply(cache, IF vars[i].has THEN vars[i].id ELSE cfg.id, cfg.getId)
              ELSE UndoRemoveApply(cache, cfg.id, cfg.getId)
  /\ UNCHANGED <<cfg, fetch, fetchAtBegin, op, vars, ctx, undoContext, timer, nextTemp,
                 before, undone, result>>

\* cancelQueries has resolved and the rest of onMutate throws: the updater
\* throws inside setQueryData, which writes nothing; no context is
\* returned, no timer armed
OnMutateThrows(i) ==
  /\ pc[i] = "cancelling"
  /\ OnMutateRaises(i)
  /\ pc' = [pc EXCEPT ![i] = "threw"]
  /\ UNCHANGED <<cache, cfg, fetch, fetchAtBegin, op, vars, ctx, undoContext, timer,
                 nextTemp, before, undone, result>>

\* cancelQueries has resolved: the rest of onMutate runs in one piece
OnMutate(i) ==
  /\ pc[i] = "cancelling"
  /\ ~OnMutateRaises(i)
  /\ CASE op[i] = "create" -> CreateOnMutate(i)
       [] op[i] = "update" -> UpdateOnMutate(i)
       [] op[i] = "delete" -> DeleteOnMutate(i)
       [] OTHER -> DeleteWithUndoOnMutate(i)
  /\ pc' = [pc EXCEPT ![i] = "begun"]
  /\ UNCHANGED <<cfg, fetch, fetchAtBegin, op, vars, before, undone, result>>

\* a faulty mutation: mutationFn is called while onMutate still awaits
Dispatch_BeforeBegin(i) ==
  /\ pc[i] = "cancelling"
  /\ pc' = [pc EXCEPT ![i] = "inflight"]
  /\ UNCHANGED <<cache, cfg, fetch, fetchAtBegin, op, vars, ctx, undoContext, timer, nextTemp, before, undone, result>>

\* the bundle hands options.mutationFn on as it is: the mutation calls it as
\* soon as onMutate has returned
Dispatch(i) ==
  /\ pc[i] = "begun"
  /\ pc' = [pc EXCEPT ![i] = "inflight"]
  /\ UNCHANGED <<cache, cfg, fetch, fetchAtBegin, op, vars, ctx, undoContext, timer, nextTemp, before, undone, result>>

\* clearTimeout(handle)
clearTimeout(t, handle) ==
  IF handle \in DOMAIN t /\ t[handle].state = "armed"
  THEN [t EXCEPT ![handle].state = "cleared"]
  ELSE t

\* a faulty onSuccess of create: the item the server returned takes the
\* place of the temp-id item
CreateOnSuccess_WritesServerItem(i, data) ==
  /\ cache' = IF ~ctx[i].exists THEN cache
              ELSE setQueryData(cache,
                     IF isInfiniteData(cache)
                     THEN replaceItemInInfiniteData(cache, ctx[i].tempId, data, cfg.getId)
                     ELSE IF cache.kind = "absent" THEN Flat(<<data>>)
                     ELSE Flat(replaceItemInArray(cache.items, ctx[i].tempId, data,
                                                  cfg.getId)))
  /\ UNCHANGED <<ctx, timer>>

\* optimistic-create.ts onSuccess
CreateOnSuccess(i, data) ==
  LET serverId == getIdFromItem(data, cfg.getId)
      tempId == ctx[i].tempId
  IN /\ cache' = IF ~ctx[i].exists THEN cache
                 ELSE IF tempId = Undefined \/ ~isTempId(tempId)
                      THEN setQueryData(cache, CreateFallbackApply(cache, data, cfg.getId))
                 ELSE setQueryData(cache,
                        CreateReplaceTempApply(cache, data, tempId, serverId, cfg.getId))
     /\ UNCHANGED <<ctx, timer>>

\* a faulty onSuccess of update: it replaces the item the request was about
UpdateOnSuccess_ByRequestId(i, data) ==
  LET itemId == IF vars[i].has THEN getIdFromItem(vars[i].item, cfg.getId) ELSE cfg.id
  IN /\ cache' = IF cache.kind = "absent" THEN Flat(<<data>>)
                 ELSE IF isInfiniteData(cache)
                      THEN replaceItemInInfiniteData(cache, itemId, data, cfg.getId)
                 ELSE Flat(replaceItemInArray(cache.items, itemId, data, cfg.getId))
     /\ UNCHANGED <<ctx, timer>>

\* optimistic-update.ts onSuccess
UpdateOnSuccess(i, data) ==
  /\ cache' = IF Mode(i) = "ambient" /\ ~ctx[i].exists THEN cache
              ELSE setQueryData(cache, UpdateSuccessApply(cache, data, cfg.getId))
  /\ UNCHANGED <<ctx, timer>>

\* optimistic-delete.ts has no onSuccess
DeleteOnSuccess(i) ==
  UNCHANGED <<cache, ctx, timer>>

\* a faulty onSuccess of delete-with-undo: it also writes the snapshot back
DeleteWithUndoOnSuccess_Restores(i) ==
  LET u == IF Mode(i) = "client" THEN undoContext[0] ELSE 0
  IN /\ ctx' = IF u = 0 THEN ctx ELSE [ctx EXCEPT ![u].committed = TRUE]
     /\ timer' = IF u = 0 THEN timer ELSE clearTimeout(timer, ctx[u].timeoutId)
     /\ cache' = setQueryData(cache, ctx[i].previousData)

\* a faulty onSuccess of delete-with-undo: it removes the configured id again
DeleteWithUndoOnSuccess_RemovesAgain(i) ==
  LET u == IF Mode(i) = "client" THEN undoContext[0] ELSE 0
  IN /\ ctx' = IF u = 0 THEN ctx ELSE [ctx EXCEPT ![u].committed = TRUE]
     /\ timer' = IF u = 0 THEN timer ELSE clearTimeout(timer, ctx[u].timeoutId)
     /\ cache' = setQueryData(cache, UndoRemoveApply(cache, cfg.id, cfg.getId))

\* optimistic-delete-with-undo.ts onSuccess.  It reads the closure's
\* undoContext, not its context parameter; the ambient bundle builds new
\* internal options (undoContext = null) for this one call.
DeleteWithUndoOnSuccess(i) ==
  LET u == IF Mode(i) = "client" THEN undoContext[0] ELSE 0
  IN /\ ctx' = IF u = 0 THEN ctx ELSE [ctx EXCEPT ![u].committed = TRUE]
     /\ timer' = IF u = 0 THEN timer ELSE clearTimeout(timer, ctx[u].timeoutId)
     /\ UNCHANGED cache

\* optimistic-create.ts onSuccess throws: at the server's item, or in the
\* map over the cached items
CreateOnSuccessRaises(i, data) ==
  /\ ctx[i].exists
  /\ \/ Raises(data, cfg.getId)
     \/ IF ctx[i].tempId = Undefined \/ ~isTempId(ctx[i].tempId)
        THEN IF isInfiniteData(cache)
             THEN \E p \in 1..Len(cache.pages) :
                    cache.pages[p].isArr /\ RaisesInArray(cache.pages[p].seq, cfg.getId)
             ELSE RaisesInData(cache, cfg.getId)
        ELSE RaisesInData(cache, cfg.getId)

\* optimistic-update.ts onSuccess throws: at the server's item, or in the
\* map over the cached items
UpdateOnSuccessRaises(i, data) ==
  /\ ~(Mode(i) = "ambient" /\ ~ctx[i].exists)
  /\ \/ Raises(data, cfg.getId)
     \/ RaisesInData(cache, cfg.getId)

\* the onSuccess of invocation i throws (the two delete lifecycles resolve
\* no id there)
OnSuccessRaises(i, data) ==
  CASE op[i] = "create" -> CreateOnSuccessRaises(i, data)
    [] op[i] = "update" -> UpdateOnSuccessRaises(i, data)
    [] OTHER -> FALSE

\* mutationFn resolves with data and onSuccess throws: the updater throws
\* inside setQueryData, which writes nothing
ResolveThrows(i, data) ==
  /\ pc[i] = "inflight"
  /\ OnSuccessRaises(i, data)
  /\ pc' = [pc EXCEPT ![i] = "threw"]
  /\ result' = [result EXCEPT ![i] = data]
  /\ UNCHANGED <<cache, cfg, fetch, fetchAtBegin, op, vars, ctx, undoContext, timer,
                 nextTemp, before, undone>>

\* mutationFn resolves with data: onSuccess runs
Resolve(i, data) ==
  /\ pc[i] = "inflight"
  /\ ~OnSuccessRaises(i, data)
  /\ CASE op[i] = "create" -> CreateOnSuccess(i, data)
       [] op[i] = "update" -> UpdateOnSuccess(i, data)
       [] op[i] = "delete" -> DeleteOnSuccess(i)
       [] OTHER -> DeleteWithUndoOnSuccess(i)
  /\ pc' = [pc EXCEPT ![i] = "succeeded"]
  /\ result' = [result EXCEPT ![i] = data]
  /\ UNCHANGED <<cfg, fetch, fetchAtBegin, op, vars, undoContext, nextTemp, before, undone>>

\* the success handler of a delete-with-undo is called a second time for
\* the same invocation, with the same context
SuccessAgain(i) ==
  /\ pc[i] = "succeeded"
  /\ op[i] = "deleteWithUndo"
  /\ DeleteWithUndoOnSuccess(i)
  /\ pc' = [pc EXCEPT ![i] = "succeededTwice"]
  /\ UNCHANGED <<cfg, fetch, fetchAtBegin, op, vars, undoContext, nextTemp, before, undone, result>>

\* a faulty onError: it clears the timer and leaves the optimistic value
OnError_KeepsOptimistic(i) ==
  /\ timer' = IF ctx[i].exists /\ op[i] = "deleteWithUndo"
              THEN clearTimeout(timer, ctx[i].timeoutId) ELSE timer
  /\ UNCHANGED cache

\* a faulty onError: a failed create takes only its own temp-id item out of
\* the cache as it is now, instead of writing its snapshot back
OnError_RemovesOwnItem(i) ==
  IF ~ctx[i].exists THEN UNCHANGED <<cache, timer>>
  ELSE /\ timer' = IF op[i] = "deleteWithUndo"
                   THEN clearTimeout(timer, ctx[i].timeoutId) ELSE timer
       /\ cache' = IF op[i] = "create"
                   THEN DeleteApply(cache, ctx[i].tempId, "byId")
                   ELSE setQueryData(cache, ctx[i].previousData)

\* onError of the four lifecycles: restore the snapshot; delete-with-undo
\* clears context.timeoutId first
OnError(i) ==
  IF ~ctx[i].exists THEN UNCHANGED <<cache, timer>>
  ELSE /\ timer' = IF op[i] = "deleteWithUndo"
                   THEN clearTimeout(timer, ctx[i].timeoutId) ELSE timer
       /\ cache' = setQueryData(cache, ctx[i].previousData)

\* the mutation catches what onMutate or onSuccess threw, calls onError
\* with the context it has (none when onMutate threw) and rejects with the
\* error
OnErrorAfterThrow(i) ==
  /\ ~NoClient
  /\ pc[i] = "threw"
  /\ OnError(i)
  /\ pc' = [pc EXCEPT ![i] = "failed"]
  /\ UNCHANGED <<cfg, fetch, fetchAtBegin, op, vars, ctx, undoContext, nextTemp, before,
                 undone, result>>

\* mutationFn rejects: onError runs
Reject(i) ==
  /\ pc[i] = "inflight"
  /\ OnError(i)
  /\ pc' = [pc EXCEPT ![i] = "failed"]
  /\ UNCHANGED <<cfg, fetch, fetchAtBegin, op, vars, ctx, undoContext, nextTemp, before, undone, result>>

\* the callback of the timer onMutate armed: () => {} when the item was not
\* found, else it commits whatever the closure's undoContext holds
TimerCallback(i) ==
  LET u == undoContext[OnMutateClosure(i)]
  IN IF timer[i].kind = "commit" /\ u # 0
     THEN [ctx EXCEPT ![u].committed = TRUE]
     ELSE ctx

\* a faulty timer: when it fires it removes the configured id again
TimerFire_RemovesAgain(i) ==
  /\ timer[i].state = "armed"
  /\ timer' = [timer EXCEPT ![i].state = "fired"]
  /\ ctx' = TimerCallback(i)
  /\ cache' = setQueryData(cache, UndoRemoveApply(cache, cfg.id, cfg.getId))
  /\ UNCHANGED <<cfg, fetch, fetchAtBegin, pc, op, vars, undoContext, nextTemp, before, undone, result>>

TimerFire(i) ==
  /\ timer[i].state = "armed"
  /\ timer' = [timer EXCEPT ![i].state = "fired"]
  /\ ctx' = TimerCallback(i)
  /\ UNCHANGED <<cache, cfg, fetch, fetchAtBegin, pc, op, vars, undoContext, nextTemp, before, undone, result>>

\* the user clicks undo (README handleUndo): restoreDeletedItem with the
\* deleted item of the mutation's context, once
Undo(i) ==
  /\ op[i] = "deleteWithUndo"
  /\ ctx[i].exists
  /\ ctx[i].deletedItem.has
  /\ ~undone[i]
  /\ cache' = setQueryData(cache, restoreDeletedItem(cache, ctx[i].deletedItem.item))
  /\ undone' = [undone EXCEPT ![i] = TRUE]
  /\ UNCHANGED <<cfg, fetch, fetchAtBegin, pc, op, vars, ctx, undoContext, timer, nextTemp, before, result>>

ServerAnswers(i) ==
  IF op[i] = "create"
    THEN ServerItems(IF vars[i].has THEN vars[i].item ELSE cfg.newItem)
  ELSE IF op[i] = "update"
    THEN UpdatedItems(IF vars[i].has THEN vars[i].item ELSE I(1))
  ELSE {NoItem}

Next ==
  \E i \in Inv :
    \/ \E o \in Ops : \E v \in VarsOf(o) : Mutate(i, o, v) /\ UNCHANGED Aside
    \/ \E o \in Ops : \E v \in VarsOf(o) : MutateThrows(i, o, v) /\ UNCHANGED Aside
    \/ OnErrorNoClient(i) /\ UNCHANGED Aside
    \/ OnMutate(i) /\ UNCHANGED Aside
    \/ Dispatch(i) /\ UNCHANGED Aside
    \/ \E data \in ServerAnswers(i) : Resolve(i, data) /\ UNCHANGED Aside
    \/ Reject(i) /\ UNCHANGED Aside
    \/ TimerFire(i) /\ UNCHANGED Aside
    \/ Undo(i) /\ UNCHANGED Aside
    \/ SuccessAgain(i) /\ UNCHANGED Aside

Spec == Init /\ [][Next]_vars_all

\* one mutation alone: only the first invocation runs
NextSolo ==
  \/ \E o \in Ops : \E v \in VarsOf(o) : Mutate(1, o, v) /\ UNCHANGED Aside
  \/ \E o \in Ops : \E v \in VarsOf(o) : MutateThrows(1, o, v) /\ UNCHANGED Aside
  \/ OnErrorNoClient(1) /\ UNCHANGED Aside
  \/ OnMutate(1) /\ UNCHANGED Aside
  \/ Dispatch(1) /\ UNCHANGED Aside
  \/ \E data \in ServerAnswers(1) : Resolve(1, data) /\ UNCHANGED Aside
  \/ Reject(1) /\ UNCHANGED Aside
  \/ TimerFire(1) /\ UNCHANGED Aside
  \/ Undo(1) /\ UNCHANGED Aside
  \/ SuccessAgain(1) /\ UNCHANGED Aside

SpecSolo == Init /\ [][NextSolo]_vars_all

\* overlapping invocations of one delete-with-undo bundle
NextUndo ==
  \E i \in Inv :
    \/ \E v \in {IdVars(Num(1))} : Mutate(i, "deleteWithUndo", v) /\ UNCHANGED Aside
    \/ \E v \in {IdVars(Num(1))} : MutateThrows(i, "deleteWithUndo", v) /\ UNCHANGED Aside
    \/ OnErrorNoClient(i) /\ UNCHANGED Aside
    \/ OnMutate(i) /\ UNCHANGED Aside
    \/ Dispatch(i) /\ UNCHANGED Aside
    \/ Resolve(i, NoItem) /\ UNCHANGED Aside
    \/ Reject(i) /\ UNCHANGED Aside
    \/ TimerFire(i) /\ UNCHANGED Aside
    \/ Undo(i) /\ UNCHANGED Aside
    \/ SuccessAgain(i) /\ UNCHANGED Aside

SpecUndo == Init /\ [][NextUndo]_vars_all

\* overlapping invocations of one delete-with-undo bundle whose caller
\* calls restoreDeletedItem at most once per invocation and only while the
\* committed flag of the invocation's context is false
InitUndoOnce ==
  /\ Init
  /\ cfg.found /\ cfg.strategy = "flat"

NextUndoOnce ==
  \E i \in Inv :
    \/ \E v \in {IdVars(Num(1))} : Mutate(i, "deleteWithUndo", v) /\ UNCHANGED Aside
    \/ OnMutate(i) /\ UNCHANGED Aside
    \/ Dispatch(i) /\ UNCHANGED Aside
    \/ Resolve(i, NoItem) /\ UNCHANGED Aside
    \/ Reject(i) /\ UNCHANGED Aside
    \/ TimerFire(i) /\ UNCHANGED Aside
    \/ ~ctx[i].committed /\ Undo(i) /\ UNCHANGED Aside

SpecUndoOnce == InitUndoOnce /\ [][NextUndoOnce]_vars_all

\* the same invocations under the scheduling of timers: a timer that is
\* armed and is not cleared fires in the end (setTimeout's callback is run
\* once the delay has passed); nothing makes a write settle
TimersFire == \A i \in Inv : WF_vars_all(TimerFire(i) /\ UNCHANGED Aside)

SpecUndoFair == InitUndoOnce /\ [][NextUndoOnce]_vars_all /\ TimersFire

\* overlapping creates, updates and deletes on one key, from one
\* explicit-client bundle per operation with the default id field
OverlapOps == {"create", "update", "delete"}

InitOverlap ==
  /\ Init
  /\ cfg.getId = "default" /\ cfg.mode = "client" /\ cfg.id = Num(1)
  /\ cfg.strategy = "flat"

NextOverlap ==
  \E i \in Inv :
    \/ \E o \in OverlapOps : \E v \in VarsOf(o) : Mutate(i, o, v) /\ UNCHANGED Aside
    \/ OnMutate(i) /\ UNCHANGED Aside
    \/ Dispatch(i) /\ UNCHANGED Aside
    \/ \E data \in ServerAnswers(i) : Resolve(i, data) /\ UNCHANGED Aside
    \/ Reject(i) /\ UNCHANGED Aside

SpecOverlap == InitOverlap /\ [][NextOverlap]_vars_all

\* overlapping invocations of the four lifecycles on one key, the timers
\* of the delete-with-undo ones firing in between
NextBegin ==
  \E i \in Inv :
    \/ \E o \in Ops : \E v \in VarsOf(o) : Mutate(i, o, v) /\ UNCHANGED Aside
    \/ OnMutate(i) /\ UNCHANGED Aside
    \/ Dispatch(i) /\ UNCHANGED Aside
    \/ \E data \in ServerAnswers(i) : Resolve(i, data) /\ UNCHANGED Aside
    \/ Reject(i) /\ UNCHANGED Aside
    \/ TimerFire(i) /\ UNCHANGED Aside

SpecBegin == InitOverlap /\ [][NextBegin]_vars_all

\* what a fetch of the key brings from the server
FetchedData == {Flat(<<I(1), I(3)>>)}

\* a background fetch of the key starts (mount, focus, invalidation)
FetchStart ==
  /\ fetch.state = "idle"
  /\ fetch.id < MaxFetch
  /\ fetch' = [id |-> fetch.id + 1, state |-> "fetching"]
  /\ UNCHANGED <<cache, cfg, pc, op, vars, ctx, undoContext, timer, nextTemp,
                 before, undone, result, fetchAtBegin>>

\* the fetch in flight resolves: its data becomes the value of the key
FetchSettle ==
  /\ fetch.state = "fetching"
  /\ \E data \in FetchedData : cache' = setQueryData(cache, data)
  /\ fetch' = [fetch EXCEPT !.state = "idle"]
  /\ UNCHANGED <<cfg, pc, op, vars, ctx, undoContext, timer, nextTemp,
                 before, undone, result, fetchAtBegin>>

\* one create, update or delete while the key is being refetched
NextFetch ==
  \/ \E o \in OverlapOps : \E v \in VarsOf(o) : Mutate(1, o, v) /\ UNCHANGED Aside
  \/ OnMutate(1) /\ UNCHANGED Aside
  \/ Dispatch(1) /\ UNCHANGED Aside
  \/ \E data \in ServerAnswers(1) : Resolve(1, data) /\ UNCHANGED Aside
  \/ Reject(1) /\ UNCHANGED Aside
  \/ FetchStart /\ UNCHANGED Aside
  \/ FetchSettle /\ UNCHANGED Aside

SpecFetch == InitOverlap /\ [][NextFetch]_vars_all

\* The twin run.  The first invocation runs alone on a bundle of
\* optimisticXWithClient and every step it makes is written down with what
\* the cache, its context and its timer were after it; then the cache and
\* the temp-id source are put back and the second invocation, on a bundle
\* of optimisticX built from the same options, is driven through the same
\* steps.
TwinConfigs ==
  { [c EXCEPT !.mode = "twin"] : c \in {d \in Configs : d.mode = "client" /\ d.strategy = "flat"} }

InitTwin ==
  /\ cache \in InitCaches
  /\ cfg \in TwinConfigs
  /\ pc = [i \in Inv |-> "idle"]
  /\ op = [i \in Inv |-> "none"]
  /\ vars = [i \in Inv |-> NoVars]
  /\ ctx = [i \in Inv |-> NoContext]
  /\ undoContext = [c \in Closures |-> 0]
  /\ timer = [i \in Inv |-> NoTimer]
  /\ nextTemp = 1
  /\ before = [i \in Inv |-> Absent]
  /\ undone = [i \in Inv |-> FALSE]
  /\ result = [i \in Inv |-> NoItem]
  /\ fetch = [id |-> 0, state |-> "idle"]
  /\ fetchAtBegin = [i \in Inv |-> 0]
  /\ twin = [k |-> 0, phase |-> "first", trace |-> <<>>]
  /\ probe = NoProbe

\* a context without what tells one invocation's timer handle from
\* another's: the handle is kept as set or not set
CtxView(c) == [c EXCEPT !.timeoutId = IF @ = 0 THEN 0 ELSE 1]

\* what is compared between the twins after a step
Seen(i) == [cache |-> cache, ctx |-> CtxView(ctx[i]), timer |-> timer[i].state]

TwinEvents(i) ==
  { [v |-> v, data |-> NoItem, o |-> o, type |-> "mutate"] :
      o \in Ops, v \in UNION {VarsOf(q) : q \in Ops} }
  \cup { [v |-> NoVars, data |-> NoItem, o |-> "none", type |-> t] :
           t \in {"onMutate", "dispatch", "reject", "timer"} }
  \cup { [v |-> NoVars, data |-> d, o |-> "none", type |-> "resolve"] :
           d \in ServerAnswers(i) }

\* the step of invocation i that event e stands for
TwinEvent(i, e) ==
  CASE e.type = "mutate" -> e.v \in VarsOf(e.o) /\ Mutate(i, e.o, e.v)
    [] e.type = "onMutate" -> OnMutate(i)
    [] e.type = "dispatch" -> Dispatch(i)
    [] e.type = "resolve" -> Resolve(i, e.data)
    [] e.type = "reject" -> Reject(i)
    [] OTHER -> TimerFire(i)

TwinFirst ==
  /\ twin.phase = "first"
  /\ \E e \in TwinEvents(1) :
       /\ TwinEvent(1, e)
       /\ twin' = [twin EXCEPT !.trace = Append(@, [e |-> e, seen |-> Seen(1)'])]
  /\ UNCHANGED probe

\* the first run has settled: the same initial cache for the second one
TwinSwitch ==
  /\ twin.phase = "first"
  /\ pc[1] \in {"succeeded", "failed"}
  /\ cache' = before[1]
  /\ nextTemp' = 1
  /\ twin' = [twin EXCEPT !.phase = "second"]
  /\ UNCHANGED <<cfg, pc, op, vars, ctx, undoContext, timer, before, undone,
                 result, fetch, fetchAtBegin, probe>>

TwinSecond ==
  /\ twin.phase = "second"
  /\ twin.k < Len(twin.trace)
  /\ TwinEvent(2, twin.trace[twin.k + 1].e)
  /\ twin' = [twin EXCEPT !.k = @ + 1]
  /\ UNCHANGED probe

NextTwin ==
  \/ TwinFirst
  \/ TwinSwitch
  \/ TwinSecond

SpecTwin == InitTwin /\ [][NextTwin]_vars_all

(***************************************************************************)
(* The core functions called on their own: the arguments are drawn in the  *)
(* initial state and a step makes the call and keeps what it returned.     *)
(* The ids generateTempId issues come from the same source as the ones of  *)
(* a create's onMutate, which runs beside the calls.                       *)
(***************************************************************************)
\* ids: numbers, and strings with and without the temp_ prefix ('1', 'k1',
\* 'temp1', 'xtemp_1', 'Temp_1', 'temp_1', ...)
ProbeIds ==
  {Num(n) : n \in 1..3}
    \cup {Str(p, n) : p \in {"", "k", "temp", "xtemp_", "Temp_", "temp_"}, n \in 1..2}

\* items that share an id, items that share a key, and an item whose id is
\* the string '1'
ProbeItems ==
  { Item(Num(1), Str("k", 1), 0), Item(Num(1), Str("k", 2), 1),
    Item(Num(2), Str("k", 1), 0), Item(Str("", 1), Str("k", 3), 0) }

ProbeArrays == UNION {[1..n -> ProbeItems] : n \in 0..MaxLen}

\* pages: plain arrays, objects with the array under 'items' beside a
\* count, objects with the array under a key that is not a conventional
\* one, and an object with arrays under two conventional keys
ProbeSeqs == {<<>>, <<I(1)>>, <<I(1), I(2)>>}

ProbePages ==
  {ArrPage(q) : q \in ProbeSeqs}
    \cup {ObjPage([NoFields EXCEPT !["items"] = ArrField(q), !["total"] = ValField(3)]) :
            q \in ProbeSeqs}
    \cup {ObjPage([NoFields EXCEPT !["posts"] = ArrField(q)]) : q \in ProbeSeqs}
    \cup {ObjPage([NoFields EXCEPT !["data"] = ArrField(<<I(1)>>),
                                   !["list"] = ArrField(<<I(3)>>)])}

ProbePageParams == <<Undefined, Num(2), Num(3), Num(4)>>

ProbePaged ==
  UNION { {Infinite(pages, SubSeq(ProbePageParams, 1, n)) : pages \in [1..n -> ProbePages]} :
            n \in 0..MaxPages }

\* the arguments of a call on a flat array, and of a call on paginated data
ProbeInputs ==
  [id : ProbeIds, item : {I(3)}, getId : {"default", "byKey"},
   data : {Absent}, array : ProbeArrays, serverId : {Num(9)}, fn : {"none"},
   issued : {FALSE}, flag : {FALSE}, out : {<<>>}, outData : {Absent}]
    \cup
  [id : ProbeIds, item : {I(3)}, getId : {"default", "byKey"},
   data : ProbePaged, array : {<<>>}, serverId : {Num(9)}, fn : {"none"},
   issued : {FALSE}, flag : {FALSE}, out : {<<>>}, outData : {Absent}]

InitProbe ==
  /\ cache = Flat(<<I(1), I(2)>>)
  /\ cfg \in {c \in Configs : c.id = Num(1) /\ c.getId = "default"
                              /\ c.mode = "client" /\ c.strategy = "flat"}
  /\ pc = [i \in Inv |-> "idle"]
  /\ op = [i \in Inv |-> "none"]
  /\ vars = [i \in Inv |-> NoVars]
  /\ ctx = [i \in Inv |-> NoContext]
  /\ undoContext = [c \in Closures |-> 0]
  /\ timer = [i \in Inv |-> NoTimer]
  /\ nextTemp = 1
  /\ before = [i \in Inv |-> Absent]
  /\ undone = [i \in Inv |-> FALSE]
  /\ result = [i \in Inv |-> NoItem]
  /\ fetch = [id |-> 0, state |-> "idle"]
  /\ fetchAtBegin = [i \in Inv |-> 0]
  /\ twin = NoTwin
  /\ probe \in ProbeInputs

\* generateTempId() is called: the id it returns is the next one examined
ProbeGenerateTempId ==
  /\ probe.fn \in {"none", "generateTempId"}
  /\ nextTemp <= MaxTemp
  /\ probe' = [probe EXCEPT !.fn = "generateTempId", !.id = generateTempId]
  /\ nextTemp' = nextTemp + 1
  /\ UNCHANGED <<cache, cfg, pc, op, vars, ctx, undoContext, timer, before, undone,
                 result, fetch, fetchAtBegin, twin>>

\* isTempId(id) is called
ProbeIsTempId ==
  /\ probe.fn \in {"none", "generateTempId"}
  /\ probe' = [probe EXCEPT !.fn = "isTempId",
                            !.issued = (probe.fn = "generateTempId"),
                            !.flag = isTempId(probe.id)]
  /\ UNCHANGED <<cache, cfg, pc, op, vars, ctx, undoContext, timer, nextTemp, before,
                 undone, result, fetch, fetchAtBegin, twin>>

\* removeItemFromArray(array, id, getId) is called
ProbeRemoveItemFromArray ==
  /\ probe.fn = "none"
  /\ probe' = [probe EXCEPT !.fn = "removeItemFromArray",
                            !.out = removeItemFromArray(probe.array, probe.id, probe.getId)]
  /\ UNCHANGED <<cache, cfg, pc, op, vars, ctx, undoContext, timer, nextTemp, before,
                 undone, result, fetch, fetchAtBegin, twin>>

ProbeFrame ==
  UNCHANGED <<cache, cfg, pc, op, vars, ctx, undoContext, timer, nextTemp, before,
              undone, result, fetch, fetchAtBegin, twin>>

\* replaceItemInArray(array, id, newItem, getId) is called
ProbeReplaceItemInArray ==
  /\ probe.fn = "none" /\ probe.data.kind = "absent"
  /\ probe' = [probe EXCEPT !.fn = "replaceItemInArray",
                            !.out = replaceItemInArray(probe.array, probe.id, probe.item,
                                                       probe.getId)]
  /\ ProbeFrame

\* replaceTempIdInArray(array, tempId, serverId, getId) is called
ProbeReplaceTempIdInArray ==
  /\ probe.fn = "none" /\ probe.data.kind = "absent"
  /\ probe' = [probe EXCEPT !.fn = "replaceTempIdInArray",
                            !.out = replaceTempIdInArray(probe.array, probe.id,
                                                         probe.serverId, probe.getId)]
  /\ ProbeFrame

\* addItemToInfiniteData(infiniteData, newItem) is called
ProbeAddItemToInfiniteData ==
  /\ probe.fn = "none" /\ probe.data.kind = "infinite"
  /\ probe' = [probe EXCEPT !.fn = "addItemToInfiniteData",
                            !.outData = addItemToInfiniteData(probe.data, probe.item)]
  /\ ProbeFrame

\* replaceItemInInfiniteData(infiniteData, id, newItem, getId) is called
ProbeReplaceItemInInfiniteData ==
  /\ probe.fn = "none" /\ probe.data.kind = "infinite"
  /\ probe' = [probe EXCEPT !.fn = "replaceItemInInfiniteData",
                            !.outData = replaceItemInInfiniteData(probe.data, probe.id,
                                                                  probe.item, probe.getId)]
  /\ ProbeFrame

\* removeItemFromInfiniteData(infiniteData, id, getId) is called
ProbeRemoveItemFromInfiniteData ==
  /\ probe.fn = "none" /\ probe.data.kind = "infinite"
  /\ probe' = [probe EXCEPT !.fn = "removeItemFromInfiniteData",
                            !.outData = removeItemFromInfiniteData(probe.data, probe.id,
                                                                   probe.getId)]
  /\ ProbeFrame

\* replaceTempIdInInfiniteData(infiniteData, tempId, serverId, getId) is called
ProbeReplaceTempIdInInfiniteData ==
  /\ probe.fn = "none" /\ probe.data.kind = "infinite"
  /\ probe' = [probe EXCEPT !.fn = "replaceTempIdInInfiniteData",
                            !.outData = replaceTempIdInInfiniteData(probe.data, probe.id,
                                                                    probe.serverId,
                                                                    probe.getId)]
  /\ ProbeFrame

NextProbe ==
  \/ ProbeGenerateTempId
  \/ ProbeIsTempId
  \/ ProbeRemoveItemFromArray
  \/ ProbeReplaceItemInArray
  \/ ProbeReplaceTempIdInArray
  \/ ProbeAddItemToInfiniteData
  \/ ProbeReplaceItemInInfiniteData
  \/ ProbeRemoveItemFromInfiniteData
  \/ ProbeReplaceTempIdInInfiniteData
  \/ \E v \in VarsOf("create") : Mutate(1, "create", v) /\ UNCHANGED Aside
  \/ OnMutate(1) /\ UNCHANGED Aside

SpecProbe == InitProbe /\ [][NextProbe]_vars_all

(***************************************************************************)
(* One mutation on a cache that may hold an item without id, called with   *)
(* or answered by an item without id.                                      *)
(***************************************************************************)
\* an item that has no id field
NoIdItem == Item(Undefined, Str("k", 4), 0)

\* the item without id before the target, after it, in the second page, in
\* a page whose array does not extract, and in an object page ahead of the
\* array page that holds the target
InvalidCaches ==
  { Absent,
    Flat(<<I(1), I(2)>>),
    Flat(<<NoIdItem, I(1)>>),
    Flat(<<I(1), NoIdItem>>),
    Infinite(<<ArrPage(<<I(1)>>), ArrPage(<<NoIdItem>>)>>, <<Undefined, Num(2)>>),
    Infinite(<<ObjPage([NoFields EXCEPT !["posts"] = ArrField(<<NoIdItem>>)]),
               ArrPage(<<I(1), I(2)>>)>>, <<Undefined, Num(2)>>),
    Infinite(<<ObjPage([NoFields EXCEPT !["items"] = ArrField(<<I(2), NoIdItem>>)]),
               ArrPage(<<I(1)>>)>>, <<Undefined, Num(2)>>) }

InvalidVarsOf(o) ==
  IF o = "update" THEN VarsOf(o) \cup {ItemVars(NoIdItem)} ELSE VarsOf(o)

\* the server may answer with an item that has no id
InvalidAnswers(i) ==
  IF op[i] \in {"create", "update"} THEN ServerAnswers(i) \cup {NoIdItem}
  ELSE ServerAnswers(i)

InitInvalid ==
  /\ cache \in InvalidCaches
  /\ cfg \in {c \in Configs : c.mode = "client" /\ c.strategy = "flat"
                              /\ c.id \in {Num(1), Str("k", 2)}}
  /\ pc = [i \in Inv |-> "idle"]
  /\ op = [i \in Inv |-> "none"]
  /\ vars = [i \in Inv |-> NoVars]
  /\ ctx = [i \in Inv |-> NoContext]
  /\ undoContext = [c \in Closures |-> 0]
  /\ timer = [i \in Inv |-> NoTimer]
  /\ nextTemp = 1
  /\ before = [i \in Inv |-> Absent]
  /\ undone = [i \in Inv |-> FALSE]
  /\ result = [i \in Inv |-> NoItem]
  /\ fetch = [id |-> 0, state |-> "idle"]
  /\ fetchAtBegin = [i \in Inv |-> 0]
  /\ twin = NoTwin
  /\ probe = NoProbe

NextInvalid ==
  \/ \E o \in Ops : \E v \in InvalidVarsOf(o) : Mutate(1, o, v) /\ UNCHANGED Aside
  \/ OnMutate(1) /\ UNCHANGED Aside
  \/ OnMutateThrows(1) /\ UNCHANGED Aside
  \/ Dispatch(1) /\ UNCHANGED Aside
  \/ \E data \in InvalidAnswers(1) : Resolve(1, data) /\ UNCHANGED Aside
  \/ \E data \in InvalidAnswers(1) : ResolveThrows(1, data) /\ UNCHANGED Aside
  \/ OnErrorAfterThrow(1) /\ UNCHANGED Aside
  \/ Reject(1) /\ UNCHANGED Aside
  \/ TimerFire(1) /\ UNCHANGED Aside
  \/ Undo(1) /\ UNCHANGED Aside

SpecInvalid == InitInvalid /\ [][NextInvalid]_vars_all

(***************************************************************************)
(* Vocabulary of the properties.                                           *)
(***************************************************************************)
Range(f) == {f[k] : k \in DOMAIN f}

\* every item a cache value holds: of the flat array, of the array pages
\* and of every array-valued field of the object pages
PageItems(page) ==
  IF page.isArr THEN Range(page.seq)
  ELSE UNION {Range(page.obj[f].seq) : f \in FieldNames}

CacheItems(c) ==
  IF c.kind = "flat" THEN Range(c.items)
  ELSE IF c.kind = "infinite" THEN UNION {PageItems(c.pages[p]) : p \in 1..Len(c.pages)}
  ELSE {}

\* the items a transform can reach: flat, or in a page whose array extracts
ReachableItems(c) ==
  IF c.kind = "flat" THEN Range(c.items)
  ELSE IF c.kind = "infinite"
       THEN UNION {Range(extractArrayFromPage(c.pages[p]).seq) : p \in 1..Len(c.pages)}
  ELSE {}

HasId(c, id) == \E x \in ReachableItems(c) : getIdFromItem(x, cfg.getId) = id

\* steps of invocation i, told by what they change
OnMutateStep(i) == pc[i] = "cancelling" /\ pc'[i] = "begun"
DispatchStep(i) == pc[i] = "begun" /\ pc'[i] = "inflight"
SuccessStep(i) == pc[i] = "inflight" /\ pc'[i] = "succeeded"
ErrorStep(i) == pc[i] = "inflight" /\ pc'[i] = "failed"
TimerStep(i) == timer[i].state = "armed" /\ timer'[i].state = "fired"

IsUndo(i) == op[i] = "deleteWithUndo"

\* a page has a sequence when it is an array or has an array under a
\* conventional key; its sequence is then the first such array
HasSeq(page) ==
  page.isArr \/ \E k \in 1..Len(ConvKeys) : page.obj[ConvKeys[k]].k = "arr"

SeqKey(page) == ConvKeys[FirstArrayKey(page)]

PageSeq(page) == IF page.isArr THEN page.seq ELSE page.obj[SeqKey(page)].seq

\* the page with s for its sequence, every other field being the same
WithSeq(page, s) ==
  IF page.isArr THEN ArrPage(s)
  ELSE ObjPage([page.obj EXCEPT ![SeqKey(page)] = ArrField(s)])

(***************************************************************************)
(* C1.  One mutation alone on a present entry (flat or paginated), its     *)
(* write rejects: after onError the cache is exactly the value it had      *)
(* when mutate was called, for each of the four lifecycles.                *)
(* Checked under SpecSolo.                                                 *)
(***************************************************************************)
C1_RollbackRestoresCache ==
  [][\A i \in Inv :
       (ErrorStep(i) /\ before[i].kind # "absent") => cache' = before[i]]_vars_all

\* a delete-with-undo that removed an item from a paginated entry, was not
\* undone, failed, and left the entry as it was before
C1_Witness ==
  \E i \in Inv :
    /\ pc[i] = "failed" /\ IsUndo(i) /\ ctx[i].deletedItem.has /\ ~undone[i]
    /\ before[i].kind = "infinite"
    /\ cache = before[i]

(***************************************************************************)
(* C2.  No cross-invocation context sharing: onSuccess, onError and the    *)
(* commit timer of an invocation never set the committed flag of, nor      *)
(* clear the timer of, the context of another invocation, whatever the     *)
(* interleaving of two invocations of one bundle.                          *)
(* Checked under SpecUndo.                                                 *)
(***************************************************************************)
C2_NoCrossInvocationContext ==
  [][\A i \in Inv : \A j \in Inv \ {i} :
       (SuccessStep(i) \/ ErrorStep(i) \/ TimerStep(i))
         => /\ ctx'[j].committed = ctx[j].committed
            /\ timer'[j] = timer[j]]_vars_all

(***************************************************************************)
(* C3.  After the write of a delete-with-undo resolved and onSuccess ran,  *)
(* the context its onMutate returned has committed = true and its timer    *)
(* is no longer pending, for both constructors, item found or not.         *)
(* Checked under SpecSolo.                                                 *)
(***************************************************************************)
C3_SuccessCommitsAndClears ==
  \A i \in Inv :
    (IsUndo(i) /\ pc[i] \in {"succeeded", "succeededTwice"})
      => ctx[i].committed /\ timer[ctx[i].timeoutId].state # "armed"

(***************************************************************************)
(* C5.  The commit timer armed by a delete-with-undo onMutate never fires  *)
(* after that invocation's onSuccess or onError has run.                   *)
(* Checked under SpecSolo.                                                 *)
(***************************************************************************)
C5_NoTimerAfterSettle ==
  [][\A i \in Inv :
       (TimerStep(i) /\ timer[i].kind = "commit")
         => pc[i] \notin {"succeeded", "succeededTwice", "failed"}]_vars_all

(***************************************************************************)
(* C4.  Commit is irreversible: once the committed flag of a               *)
(* delete-with-undo context is true, no lifecycle handler of that          *)
(* invocation (timer, onSuccess, onError) puts the deleted item back into  *)
(* the cache.  Checked under SpecUndo.                                     *)
(***************************************************************************)
C4_CommitIrreversible ==
  [][\A i \in Inv :
       (/\ IsUndo(i) /\ ctx[i].committed /\ ctx[i].deletedItem.has
        /\ SuccessStep(i) \/ ErrorStep(i) \/ TimerStep(i)
        /\ ~HasId(cache, cfg.id))
         => ~HasId(cache', cfg.id)]_vars_all

(***************************************************************************)
(* C4, amended.  Once committed is true, the timer and onSuccess of that   *)
(* invocation do not put the deleted item back; onError does: it writes    *)
(* the snapshot back whether or not committed is set.                      *)
(***************************************************************************)
C4_CommitIrreversibleButForOnError ==
  [][\A i \in Inv :
       (IsUndo(i) /\ ctx[i].committed /\ ctx[i].deletedItem.has)
         => /\ ((SuccessStep(i) \/ TimerStep(i)) /\ ~HasId(cache, cfg.id))
                 => ~HasId(cache', cfg.id)
            /\ ErrorStep(i) => cache' = ctx[i].previousData]_vars_all

\* the timer fired, then the write failed: committed and the item is back
C4_Witness ==
  \E i \in Inv :
    /\ IsUndo(i) /\ ctx[i].committed /\ ctx[i].deletedItem.has /\ ~undone[i]
    /\ timer[i].state = "fired" /\ pc[i] = "failed"
    /\ HasId(cache, cfg.id)

(***************************************************************************)
(* C6.  When the target id is in the cache (flat, array pages or object    *)
(* pages), the cache after the onMutate of delete-with-undo is the cache   *)
(* after the onMutate of plain delete for the same id, and the context     *)
(* holds the removed item.  Checked under SpecSolo.                        *)
(***************************************************************************)
C6_UndoBeginRemovesAsDelete ==
  [][\A i \in Inv :
       (OnMutateStep(i) /\ IsUndo(i) /\ HasId(cache, cfg.id))
         => /\ cache' = DeleteApply(cache, cfg.id, cfg.getId)
            /\ ctx'[i].deletedItem.has
            /\ getIdFromItem(ctx'[i].deletedItem.item, cfg.getId) = cfg.id]_vars_all

(***************************************************************************)
(* C7.  Configured with the placeholder id '' and called as mutate(id)     *)
(* with the id of a cached item, the onMutate of delete-with-undo removes  *)
(* the item with that id and keeps it in context.deletedItem.              *)
(* Checked under SpecSolo.                                                 *)
(***************************************************************************)
C7_UndoDeletesTheIdPassedToMutate ==
  [][\A i \in Inv :
       (/\ OnMutateStep(i) /\ IsUndo(i)
        /\ cfg.id = EmptyStr /\ vars[i].has /\ HasId(cache, vars[i].id))
         => /\ ctx'[i].deletedItem.has
            /\ getIdFromItem(ctx'[i].deletedItem.item, cfg.getId) = vars[i].id
            /\ ~HasId(cache', vars[i].id)]_vars_all

(***************************************************************************)
(* C8.  The remote delete of a delete-with-undo (mutationFn) is issued     *)
(* only once the undo timeout has expired, and never after an undo.        *)
(* Checked under SpecSolo.                                                 *)
(***************************************************************************)
C8_WriteIssuedOnlyAfterTimeout ==
  [][\A i \in Inv :
       (DispatchStep(i) /\ IsUndo(i) /\ ctx[i].deletedItem.has)
         => timer[i].state = "fired" /\ ~undone[i]]_vars_all

(***************************************************************************)
(* C9.  Create reconciliation, default identity, flat cache: after         *)
(* onSuccess the cache is the item with the server's id followed by the    *)
(* items cached before, unchanged and in order, and no id is temporary.    *)
(* Checked under SpecSolo.                                                 *)
(***************************************************************************)
C9_CreateReconciliation ==
  \A i \in Inv :
    (/\ op[i] = "create" /\ pc[i] = "succeeded"
     /\ cfg.getId = "default" /\ before[i].kind = "flat")
      => /\ cache.kind = "flat"
         /\ Len(cache.items) = Len(before[i].items) + 1
         /\ cache.items[1].id = result[i].id
         /\ Tail(cache.items) = before[i].items
         /\ \A x \in CacheItems(cache) : ~isTempId(x.id)

\* a create on [A, B] resolved with the new server id 5
C9_Witness ==
  \E i \in Inv :
    /\ op[i] = "create" /\ pc[i] = "succeeded" /\ cfg.getId = "default"
    /\ before[i] = Flat(<<I(1), I(2)>>)
    /\ result[i].id = Num(5)
    /\ Len(cache.items) = 3 /\ cache.items[1].id = Num(5)

(***************************************************************************)
(* C10.  For every identity configuration (default id field or a custom    *)
(* extractor), after the onSuccess of a create no cached item has a        *)
(* temporary id in its id field.  Checked under SpecSolo.                  *)
(***************************************************************************)
C10_NoTempIdAfterCreateSuccess ==
  \A i \in Inv :
    (op[i] = "create" /\ pc[i] = "succeeded")
      => \A x \in CacheItems(cache) : ~isTempId(x.id)

(***************************************************************************)
(* More vocabulary: one page with an item put at the head of its sequence. *)
(***************************************************************************)
\* page q is page p with x put at index 0 of its item sequence, every
\* other field of an object page being the same
HeadInserted(p, q, x) ==
  IF p.isArr THEN q = ArrPage(<<x>> \o p.seq)
  ELSE /\ ~q.isArr
       /\ \E f \in FieldNames :
            /\ p.obj[f].k = "arr"
            /\ q.obj[f] = ArrField(<<x>> \o p.obj[f].seq)
            /\ \A g \in FieldNames \ {f} : q.obj[g] = p.obj[g]

\* the optimistic item of a create: the item handed to mutate (the
\* configured newItem when none is) with the temporary id in its id field
OptimisticItem(i, tempId) ==
  [(IF vars[i].has THEN vars[i].item ELSE cfg.newItem) EXCEPT !.id = tempId]

CreateStep(i) == OnMutateStep(i) /\ op[i] = "create"

\* old is a paginated value and new is old with x at index 0 of the first
\* page's sequence, all other pages and the page params being the same
HeadOfFirstPage(old, new, x) ==
  /\ new.kind = "infinite"
  /\ new.pageParams = old.pageParams
  /\ Len(new.pages) = Len(old.pages)
  /\ HeadInserted(old.pages[1], new.pages[1], x)
  /\ \A p \in 2..Len(old.pages) : new.pages[p] = old.pages[p]

(***************************************************************************)
(* C11.  The onMutate of create issues a temporary id no cached item has,  *)
(* builds the optimistic item as the item passed to mutate with that id    *)
(* in its id field, and puts it at the head: index 0 of the flat array;    *)
(* alone in a new flat array when the entry is absent; index 0 of the      *)
(* sequence of the first page of paginated data, every other page being    *)
(* unchanged.  The first page that receives the item is page 0 when its    *)
(* sequence extracts, and else (no page, or no sequence in page 0) a new   *)
(* page put ahead of the unchanged old pages.  The items cached before     *)
(* keep their order.                                                       *)
(***************************************************************************)
C11_CreateBeginInsertsAtHead ==
  [][\A i \in Inv :
       CreateStep(i) =>
         LET t == ctx'[i].tempId
             x == OptimisticItem(i, t)
         IN /\ isTempId(t)
            /\ \A y \in CacheItems(cache) : y.id # t
            /\ cache.kind = "absent" => cache' = Flat(<<x>>)
            /\ cache.kind = "flat" => cache' = Flat(<<x>> \o cache.items)
            /\ cache.kind = "infinite" =>
                 IF Len(cache.pages) = 0
                 THEN cache' = Infinite(<<ArrPage(<<x>>)>>, <<Undefined>>)
                 ELSE IF HasSeq(cache.pages[1])
                 THEN HeadOfFirstPage(cache, cache', x)
                 ELSE cache' = Infinite(<<ArrPage(<<x>>)>> \o cache.pages,
                                        cache.pageParams)]_vars_all

\* a create has put its item at the head of the items of an object page
C11_Witness ==
  \E i \in Inv :
    /\ op[i] = "create" /\ pc[i] = "begun" /\ vars[i].has
    /\ cache.kind = "infinite" /\ Len(cache.pages) = 2
    /\ ~cache.pages[1].isArr
    /\ Len(cache.pages[1].obj["items"].seq) = 3
    /\ cache.pages[1].obj["items"].seq[1] = OptimisticItem(i, ctx[i].tempId)

(***************************************************************************)
(* More vocabulary: a cache value with a function applied to the items of  *)
(* given id, in the flat array and in every page whose sequence extracts.  *)
(***************************************************************************)
MappedSeq(array, id, F(_)) ==
  [k \in 1..Len(array) |->
     IF getIdFromItem(array[k], cfg.getId) = id THEN F(array[k]) ELSE array[k]]

\* c with G applied to the flat array, or to the sequence of every page
\* that has one
SeqMappedCache(c, G(_)) ==
  IF c.kind = "flat" THEN Flat(G(c.items))
  ELSE IF c.kind = "infinite"
       THEN [c EXCEPT !.pages =
               [p \in 1..Len(c.pages) |->
                  IF HasSeq(c.pages[p])
                  THEN WithSeq(c.pages[p], G(PageSeq(c.pages[p])))
                  ELSE c.pages[p]]]
  ELSE c

MappedCache(c, id, F(_)) == SeqMappedCache(c, LAMBDA a : MappedSeq(a, id, F))

\* c without the items of that id
RemovedCache(c, id) ==
  SeqMappedCache(c, LAMBDA a :
    SelectSeq(a, LAMBDA y : getIdFromItem(y, cfg.getId) # id))

\* c with updater applied to the items of that id
UpdatedCache(c, id) == MappedCache(c, id, updater)

\* c with the items of that id replaced by data
ReplacedCache(c, id, data) == MappedCache(c, id, LAMBDA y : data)

\* the id an update is about: of the item passed to mutate, else configured
UpdateTargetId(i) ==
  IF vars[i].has THEN getIdFromItem(vars[i].item, cfg.getId) ELSE cfg.id

UpdateStep(i) == OnMutateStep(i) /\ op[i] = "update"

(***************************************************************************)
(* C12.  The onMutate of update takes the target id from the item passed   *)
(* to mutate (the configured id when none is passed); an item with that    *)
(* id in the cache (flat or any page) is replaced by updater(cached item)  *)
(* and no other item changes; when no item has that id the cache is left   *)
(* as it is; in both cases onMutate returns a context.                     *)
(***************************************************************************)
C12_UpdateBeginReplacesOrSkips ==
  [][\A i \in Inv :
       UpdateStep(i) =>
         /\ ctx'[i].exists
         /\ ctx'[i].previousData = cache
         /\ IF HasId(cache, UpdateTargetId(i))
            THEN cache' = UpdatedCache(cache, UpdateTargetId(i)) /\ cache' # cache
            ELSE cache' = cache]_vars_all

\* an update of a stale copy of item 1 has toggled the cached item 1 in an
\* object page
C12_Witness ==
  \E i \in Inv :
    /\ op[i] = "update" /\ pc[i] = "begun" /\ vars[i].has
    /\ vars[i].item.v = 1
    /\ before[i].kind = "infinite" /\ Len(before[i].pages) = 2
    /\ ~before[i].pages[1].isArr
    /\ Len(before[i].pages[1].obj["items"].seq) = 2
    /\ cache.pages[1].obj["items"].seq[1] = updater(I(1))
    /\ cache.pages[1].obj["items"].seq[2] = I(2)

UpdateSuccessStep(i) == SuccessStep(i) /\ op[i] = "update"

(***************************************************************************)
(* C13.  The onSuccess of update, on a present cache entry, replaces the   *)
(* items whose id is the id of the item the server returned by that item   *)
(* and changes nothing else; the id of the request plays no part: when     *)
(* the server's item has another id than the optimistically updated item,  *)
(* that item stays as onMutate left it.                                    *)
(***************************************************************************)
C13_UpdateSuccessReplacesByServerId ==
  [][\A i \in Inv :
       (UpdateSuccessStep(i) /\ cache.kind # "absent") =>
         LET data == result'[i]
             serverId == getIdFromItem(data, cfg.getId)
         IN /\ cache' = ReplacedCache(cache, serverId, data)
            /\ serverId # UpdateTargetId(i) =>
                 \A y \in ReachableItems(cache) :
                   getIdFromItem(y, cfg.getId) = UpdateTargetId(i)
                     => y \in ReachableItems(cache')]_vars_all

\* the update of item 1 was answered with an item of id 2: item 1 stays
\* as updater left it, item 2 is the server's item
C13_Witness ==
  \E i \in Inv :
    /\ op[i] = "update" /\ pc[i] = "succeeded" /\ vars[i].has
    /\ cfg.getId = "default"
    /\ vars[i].item.id = Num(1) /\ result[i].id = Num(2)
    /\ cache.kind = "flat"
    /\ cache.items = <<updater(I(1)), result[i]>>

\* the id a plain delete is about: the value passed to mutate unless it is
\* undefined or null, else the configured id
DeleteTargetId(i) == IF vars[i].has THEN vars[i].id ELSE cfg.id

DeleteStep(i) == OnMutateStep(i) /\ op[i] = "delete"

(***************************************************************************)
(* C14.  The onMutate of plain delete removes, from the flat array or      *)
(* from the sequence of every page, the items whose id is the value        *)
(* passed to mutate when that value is not undefined or null (0 being a    *)
(* value), the configured id otherwise; the other items keep their order;  *)
(* and the success of the write changes the cache no further.              *)
(***************************************************************************)
C14_DeleteBeginRemovesResolvedId ==
  [][\A i \in Inv :
       /\ DeleteStep(i) =>
            /\ cache' = RemovedCache(cache, DeleteTargetId(i))
            /\ ~HasId(cache', DeleteTargetId(i))
       /\ (SuccessStep(i) /\ op[i] = "delete") => cache' = cache]_vars_all

\* mutate(0) on [{id: 0}, {id: 1}] with another id configured: the write
\* succeeded and the cache is [{id: 1}]
C14_Witness ==
  \E i \in Inv :
    /\ op[i] = "delete" /\ pc[i] = "succeeded"
    /\ vars[i].has /\ vars[i].id = Num(0) /\ cfg.id # Num(0)
    /\ before[i] = Flat(<<I(0), I(1)>>)
    /\ cache = Flat(<<I(1)>>)

\* the sequence of the page holds an item of that id
PageContains(page, id) ==
  /\ HasSeq(page)
  /\ \E k \in 1..Len(PageSeq(page)) : getIdFromItem(PageSeq(page)[k], cfg.getId) = id

\* page q is page p but for the items of its sequence
SameButSeq(p, q) ==
  /\ q.isArr = p.isArr
  /\ ~p.isArr => /\ q.obj[SeqKey(p)].k = "arr"
                 /\ \A f \in FieldNames \ {SeqKey(p)} : q.obj[f] = p.obj[f]

(***************************************************************************)
(* C15.  A delete of an id from paginated data changes only the sequences  *)
(* of the pages that hold the id: the number and order of the pages, the   *)
(* other fields of an object page, the pages that do not hold the id and   *)
(* the page params are all as before.                                      *)
(***************************************************************************)
C15_PaginatedDeleteFrame ==
  [][\A i \in Inv :
       (DeleteStep(i) /\ cache.kind = "infinite") =>
         /\ cache'.kind = "infinite"
         /\ cache'.pageParams = cache.pageParams
         /\ Len(cache'.pages) = Len(cache.pages)
         /\ \A p \in 1..Len(cache.pages) :
              IF PageContains(cache.pages[p], DeleteTargetId(i))
              THEN /\ SameButSeq(cache.pages[p], cache'.pages[p])
                   /\ cache'.pages[p] # cache.pages[p]
              ELSE cache'.pages[p] = cache.pages[p]]_vars_all

\* item 1 was deleted from the first of two object pages: that page keeps
\* its total field, the second page and the page params are as before
C15_Witness ==
  \E i \in Inv :
    /\ op[i] = "delete" /\ pc[i] = "begun"
    /\ before[i].kind = "infinite" /\ Len(before[i].pages) = 2
    /\ ~before[i].pages[1].isArr
    /\ before[i].pages[1].obj["items"].seq = <<I(1), I(2)>>
    /\ cache.pages[1].obj["items"].seq = <<I(2)>>
    /\ cache.pages[1].obj["total"] = ValField(3)
    /\ cache.pages[2] = before[i].pages[2]
    /\ cache.pageParams = before[i].pageParams

\* restoreDeletedItem is called for invocation i
UndoStep(i) == ~undone[i] /\ undone'[i]

(***************************************************************************)
(* C16.  restoreDeletedItem, called after the onMutate of a                *)
(* delete-with-undo and before its timer fires, puts the deleted item      *)
(* back at index 0 of the flat array, or at index 0 of the sequence of     *)
(* the first page of paginated data (page 0 when its sequence extracts,    *)
(* else a new page ahead of the old ones), or alone in a new flat array    *)
(* when the entry is absent; and the timer, firing later, does not remove  *)
(* the item again.                                                         *)
(***************************************************************************)
C16_UndoReinsertsAtHead ==
  [][\A i \in Inv :
       LET d == ctx[i].deletedItem.item
       IN /\ (UndoStep(i) /\ timer[i].state = "armed") =>
               /\ restoreDeletedItem(Absent, d) = Flat(<<d>>)
               /\ cache.kind = "flat" => cache' = Flat(<<d>> \o cache.items)
               /\ cache.kind = "infinite" =>
                    IF Len(cache.pages) = 0
                    THEN cache' = Infinite(<<ArrPage(<<d>>)>>, <<Undefined>>)
                    ELSE IF HasSeq(cache.pages[1])
                    THEN HeadOfFirstPage(cache, cache', d)
                    ELSE cache' = Infinite(<<ArrPage(<<d>>)>> \o cache.pages,
                                           cache.pageParams)
          /\ (TimerStep(i) /\ undone[i]) =>
               /\ cache' = cache
               /\ d \in ReachableItems(cache')]_vars_all

\* item 2 of [1, 2] was deleted and restored, it is now at index 0, and
\* the timer has fired since
C16_Witness ==
  \E i \in Inv :
    /\ IsUndo(i) /\ undone[i] /\ timer[i].state = "fired" /\ pc[i] = "begun"
    /\ before[i] = Flat(<<I(1), I(2)>>)
    /\ ctx[i].deletedItem.item = I(2)
    /\ cache = Flat(<<I(2), I(1)>>)

(***************************************************************************)
(* C17.  The firing of the timer of a delete-with-undo changes nothing     *)
(* but a committed flag: the cache entry is the same before and after,     *)
(* in every reachable state, and so is every other field of every          *)
(* context.  Checked with overlapping invocations.                         *)
(***************************************************************************)
C17_TimerOnlyFlipsCommitted ==
  [][\A i \in Inv :
       TimerStep(i) =>
         /\ cache' = cache
         /\ \A j \in Inv : ctx'[j] = [ctx[j] EXCEPT !.committed = ctx'[j].committed]
         /\ \A j \in Inv : ctx[j].committed => ctx'[j].committed
         /\ \A j \in Inv \ {i} : timer'[j] = timer[j]
         /\ UNCHANGED <<pc, undoContext, undone>>]_vars_all

\* the timer of a delete that was undone has fired: the flag is set and
\* the restored item is still in the cache
C17_Witness ==
  \E i \in Inv :
    /\ IsUndo(i) /\ timer[i].state = "fired" /\ timer[i].kind = "commit"
    /\ ctx[i].committed /\ undone[i]
    /\ HasId(cache, cfg.id)

(***************************************************************************)
(* C18.  After restoreDeletedItem has undone a delete-with-undo, the       *)
(* success of the write, arriving late, does not write the cache: the      *)
(* entry is the same before and after onSuccess, and the restored item     *)
(* is still in it.                                                         *)
(***************************************************************************)
C18_LateSuccessAfterUndoKeepsCache ==
  [][\A i \in Inv :
       (SuccessStep(i) /\ IsUndo(i) /\ undone[i]) =>
         /\ cache' = cache
         /\ ctx[i].deletedItem.item \in ReachableItems(cache')]_vars_all

\* a delete of item 1 from array pages was undone and then confirmed by
\* the server: item 1 is at the head of the first page
C18_Witness ==
  \E i \in Inv :
    /\ IsUndo(i) /\ undone[i] /\ pc[i] = "succeeded"
    /\ cache.kind = "infinite" /\ Len(cache.pages) = 2
    /\ cache.pages[1] = ArrPage(<<I(1), I(2)>>)
    /\ ctx[i].deletedItem.item = I(1)

SuccessAgainStep(i) == pc[i] = "succeeded" /\ pc'[i] = "succeededTwice"

(***************************************************************************)
(* C19.  Commit is idempotent: the success handler of a delete-with-undo,  *)
(* run a second time for the same invocation, leaves the committed flag    *)
(* of its context true, its timer cleared and the cache unchanged (the     *)
(* handler has no statement that throws).                                  *)
(***************************************************************************)
C19_SecondSuccessLeavesCommitted ==
  [][\A i \in Inv :
       SuccessAgainStep(i) =>
         /\ ctx'[i].committed
         /\ timer'[ctx[i].timeoutId].state # "armed"
         /\ cache' = cache]_vars_all

(***************************************************************************)
(* C20.  Rollback to an absent entry: when the onMutate of create ran on   *)
(* an absent entry (making it a flat array of the one temp-id item) and    *)
(* the write rejects, after onError the entry is absent again and the      *)
(* temp-id item cannot be read from the cache.                             *)
(***************************************************************************)
C20_RollbackToAbsent ==
  [][\A i \in Inv :
       (/\ ErrorStep(i) /\ op[i] = "create"
        /\ ctx[i].exists /\ ctx[i].previousData = Absent)
         => /\ cache' = Absent
            /\ \A x \in CacheItems(cache') : x.id # ctx[i].tempId]_vars_all

\* the order of the steps of one invocation
LifecycleOrder ==
  { <<"idle", "cancelling">>, <<"cancelling", "begun">>, <<"begun", "inflight">>,
    <<"inflight", "succeeded">>, <<"inflight", "failed">>,
    <<"succeeded", "succeededTwice">> }

FetchWriteStep == fetch.state = "fetching" /\ fetch'.state = "idle" /\ fetch'.id = fetch.id
                  /\ \A i \in Inv : pc'[i] = pc[i]

(***************************************************************************)
(* C22.  A background refetch of the key that is in flight when the        *)
(* onMutate of a mutation starts never overwrites that mutation's          *)
(* optimistic write: no fetch that writes its result has the number of    *)
(* the fetch that was in flight when an onMutate started.                  *)
(***************************************************************************)
C22_CancelledFetchNeverWrites ==
  [][\A i \in Inv :
       (FetchWriteStep /\ pc[i] # "idle") => fetch.id # fetchAtBegin[i]]_vars_all

\* a fetch was in flight when onMutate started; onMutate has written the
\* optimistic item and no fetch is in flight
C22_Witness ==
  \E i \in Inv :
    /\ op[i] = "create" /\ pc[i] = "begun"
    /\ fetchAtBegin[i] = 1 /\ fetch = [id |-> 1, state |-> "idle"]
    /\ \E x \in CacheItems(cache) : isTempId(x.id)

\* pages and pageParams of paginated data are paired by index
PagesPaired(c) == c.kind = "infinite" => Len(c.pages) = Len(c.pageParams)

(***************************************************************************)
(* C23.  Page/parameter pairing: every step of a lifecycle that takes      *)
(* paginated data to paginated data leaves the number of pages and the     *)
(* pageParams as they were, unless the data had zero pages; hence data     *)
(* whose pages and pageParams have equal lengths keeps equal lengths.      *)
(***************************************************************************)
C23_PagesStayPaired ==
  [][/\ (cache.kind = "infinite" /\ cache'.kind = "infinite" /\ Len(cache.pages) > 0)
          => /\ Len(cache'.pages) = Len(cache.pages)
             /\ cache'.pageParams = cache.pageParams
     /\ PagesPaired(cache) => PagesPaired(cache')]_vars_all


\* C24: when the ambient handlers find no QueryClient, every phase that runs
\* (onMutate, then the handler TanStack calls for the failed mutation) ends
\* by throwing the configuration error, and the cache is left as it was
C24_EveryPhaseFailsFast ==
  [][\A i \in Inv :
       (NoClient /\ pc'[i] # pc[i])
         => /\ pc'[i] = "threw"
            /\ cache' = cache]_vars_all

\* the part of C24 the handlers do keep: without a QueryClient onMutate
\* throws and no step changes the cache, the context or a timer
C24_NoClientTouchesNothing ==
  [][NoClient
       => /\ cache' = cache /\ ctx' = ctx /\ timer' = timer
          /\ \A i \in Inv : pc[i] = "idle" /\ pc'[i] # "idle" => pc'[i] = "threw"]_vars_all

C24_Witness ==
  \E i \in Inv : NoClient /\ pc[i] = "failed" /\ cache = before[i]


\* C25: driven through the same steps from the same cache, the bundle of
\* optimisticX leaves after every step the cache, the context (committed
\* flag included) and the timer state the bundle of optimisticXWithClient
\* left
C25_TwinsAgree ==
  (twin.phase = "second" /\ twin.k > 0)
    => Seen(2) = twin.trace[twin.k].seen

\* the part of C25 that does hold: create, update and delete agree
C25_TwinsAgreeButUndo ==
  (twin.phase = "second" /\ twin.k > 0 /\ op[2] # "deleteWithUndo")
    => Seen(2) = twin.trace[twin.k].seen

C25_Witness ==
  /\ twin.phase = "second" /\ twin.k = Len(twin.trace)
  /\ op[2] = "deleteWithUndo" /\ pc[2] = "succeeded"
  /\ ctx[1].deletedItem.has


Digits == <<"0", "1", "2", "3", "4", "5", "6", "7", "8", "9">>

\* the characters of a string id: its prefix, then its number
Text(id) ==
  (CASE id.pre = "k" -> <<"k">>
     [] id.pre = "temp" -> <<"t", "e", "m", "p">>
     [] id.pre = "temp_" -> <<"t", "e", "m", "p", "_">>
     [] id.pre = "xtemp_" -> <<"x", "t", "e", "m", "p", "_">>
     [] id.pre = "Temp_" -> <<"T", "e", "m", "p", "_">>
     [] OTHER -> <<>>)
    \o <<Digits[id.n + 1]>>

StartsWith(text, prefix) ==
  /\ Len(text) >= Len(prefix)
  /\ SubSeq(text, 1, Len(prefix)) = prefix

\* C26: isTempId is true of every id generateTempId issued, false of every
\* number and of every string that does not start with temp_, and true of
\* the tempId in the context every create's onMutate returned
C26_IssuerAndCheckerAgree ==
  /\ (probe.fn = "isTempId" /\ probe.issued) => probe.flag
  /\ (probe.fn = "isTempId" /\ probe.id.typ = "number") => ~probe.flag
  /\ (probe.fn = "isTempId" /\ probe.id.typ = "string"
        /\ ~StartsWith(Text(probe.id), <<"t", "e", "m", "p", "_">>)) => ~probe.flag
  /\ \A i \in Inv :
       (op[i] = "create" /\ ctx[i].exists)
         => (ctx[i].tempId.typ = "string"
             /\ StartsWith(Text(ctx[i].tempId), <<"t", "e", "m", "p", "_">>))

C26_Witness ==
  /\ probe.fn = "isTempId" /\ probe.issued /\ probe.flag
  /\ op[1] = "create" /\ pc[1] = "begun" /\ ctx[1].exists
  /\ ctx[1].tempId # probe.id


\* the indexes of the items of S whose resolved id is not id, and the
\* j-th of them from the left
KeptIndexes(S, id, getId) ==
  {k \in 1..Len(S) : getIdFromItem(S[k], getId) # id}

KeptIndex(S, id, getId, j) ==
  CHOOSE k \in KeptIndexes(S, id, getId) :
    Cardinality({h \in KeptIndexes(S, id, getId) : h <= k}) = j

Occurrences(S, id, getId) ==
  Cardinality({k \in 1..Len(S) : getIdFromItem(S[k], getId) = id})

\* C28: removeItemFromArray(S, id) holds no item whose resolved id is id
\* (findItemInArray finds none), holds every other item of S in the order
\* S had them, and is one shorter than S when id occurs once in S (shorter
\* by the number of occurrences in general)
C28_RemoveByIdFilters ==
  probe.fn = "removeItemFromArray"
    => LET S == probe.array
           R == probe.out
       IN /\ ~findItemInArray(R, probe.id, probe.getId).found
          /\ Len(R) = Cardinality(KeptIndexes(S, probe.id, probe.getId))
          /\ \A j \in 1..Len(R) : R[j] = S[KeptIndex(S, probe.id, probe.getId, j)]
          /\ Len(R) = Len(S) - Occurrences(S, probe.id, probe.getId)
          /\ Occurrences(S, probe.id, probe.getId) = 1 => Len(R) = Len(S) - 1

\* an array that holds the id twice, around an item that stays
C28_Witness ==
  /\ probe.fn = "removeItemFromArray"
  /\ Len(probe.array) = 3
  /\ Occurrences(probe.array, probe.id, probe.getId) = 2
  /\ getIdFromItem(probe.array[2], probe.getId) # probe.id
  /\ Len(probe.out) = 1

\* an array that holds the id once
C28_WitnessOnce ==
  /\ probe.fn = "removeItemFromArray"
  /\ Occurrences(probe.array, probe.id, probe.getId) = 1
  /\ Len(probe.out) = Len(probe.array) - 1


\* C27: the removal the onMutate of plain delete applies is the one of the
\* configured strategy: a removal from the pages of a paginated value
\* happens only under 'infinite', a removal from a flat array only under
\* 'flat'
C27_StrategySelectsRemoval ==
  [][\A i \in Inv :
       (DeleteStep(i) /\ cache' # cache)
         => (isInfiniteData(cache) <=> cfg.strategy = "infinite")]_vars_all

\* what the onMutate does instead: the shape of the cached value selects
\* the removal, whatever the strategy
C27_ShapeSelectsRemoval ==
  [][\A i \in Inv :
       DeleteStep(i)
         => cache' = IF cache.kind = "absent" THEN cache
                     ELSE IF isInfiniteData(cache)
                       THEN removeItemFromInfiniteData(cache, DeleteTargetId(i), cfg.getId)
                     ELSE Flat(removeItemFromArray(cache.items, DeleteTargetId(i), cfg.getId))]_vars_all

\* strategy 'flat' and an item gone from a page
C27_Witness ==
  \E i \in Inv :
    /\ op[i] = "delete" /\ pc[i] = "begun" /\ cfg.strategy = "flat"
    /\ isInfiniteData(before[i]) /\ cache # before[i]


Settled(i) == pc[i] \in {"succeeded", "failed"}

HoldsTempId(c) == \E x \in CacheItems(c) : isTempId(x.id)

\* C29: once every overlapping create, update or delete on the key has
\* settled and run its handler, no item of the cache has a temporary id,
\* whatever the interleaving
C29_NoTempIdOnceSettled ==
  (\A i \in Inv : Settled(i)) => ~HoldsTempId(cache)

\* what does hold: a temporary id is left only when a mutation failed; when
\* every mutation succeeded none is left
C29_TempIdOnlyAfterRollback ==
  ((\A i \in Inv : Settled(i)) /\ HoldsTempId(cache))
    => \E j \in Inv : pc[j] = "failed"

\* the create succeeded, the delete that began after it failed, and the
\* item with the create's temporary id is in the cache
C29_Witness ==
  /\ op[1] = "create" /\ pc[1] = "succeeded"
  /\ op[2] = "delete" /\ pc[2] = "failed"
  /\ before[1].kind # "absent"
  /\ \E x \in CacheItems(cache) : x.id = ctx[1].tempId


\* the id of the item an invocation's own optimistic change is about
OwnTarget(i) ==
  CASE op[i] = "create" -> ctx[i].tempId
    [] op[i] = "update" -> UpdateTargetId(i)
    [] OTHER -> DeleteTargetId(i)

\* the change invocation j made (the item it created or updated being in
\* the cache, the item it deleted not being there) is in the cache after
\* the step as it was before the step
StillReflected(j) ==
  CASE op[j] = "create" ->
         \A x \in CacheItems(cache) :
           (x.id = ctx[j].tempId \/ (pc[j] = "succeeded" /\ x = result[j]))
             => x \in CacheItems(cache')
    [] op[j] = "update" ->
         \A x \in CacheItems(cache) :
           getIdFromItem(x, cfg.getId) = UpdateTargetId(j) => x \in CacheItems(cache')
    [] OTHER ->
         ~HasId(cache, DeleteTargetId(j)) => ~HasId(cache', DeleteTargetId(j))

FieldSeq(page, f) ==
  IF f = "seq" THEN (IF page.isArr THEN page.seq ELSE <<>>)
  ELSE IF page.isArr THEN <<>> ELSE page.obj[f].seq

\* every place of a cache value where an item is, and the item there
Places(c) ==
  IF c.kind = "flat" THEN {<<0, "seq", k>> : k \in 1..Len(c.items)}
  ELSE IF c.kind = "infinite"
    THEN UNION { {<<p, f, k>> : k \in 1..Len(FieldSeq(c.pages[p], f))} :
                   p \in 1..Len(c.pages), f \in FieldNames \cup {"seq"} }
  ELSE {}

ItemAt(c, t) ==
  IF c.kind = "flat" THEN c.items[t[3]]
  ELSE FieldSeq(c.pages[t[1]], t[2])[t[3]]

IdsDistinct(c) ==
  \A s \in Places(c) : \A t \in Places(c) \ {s} :
    getIdFromItem(ItemAt(c, s), cfg.getId) # getIdFromItem(ItemAt(c, t), cfg.getId)

\* C31: from a cache of items with pairwise distinct ids, no sequence of
\* onMutate, timer, onSuccess and onError steps of delete-with-undo and of
\* restoreDeletedItem calls (one per invocation at most, made while
\* committed is false) gives a cache with two items of one id
C31_NoDuplicateIds == IdsDistinct(cache)

\* what does hold: one invocation alone whose write has not failed leaves
\* no two items of one id
C31_NoDuplicateIdsUnlessFailed ==
  (pc[2] = "idle" /\ pc[1] # "failed") => IdsDistinct(cache)

\* the write failed, the snapshot was written back, and then the item was
\* restored: it is in the cache twice
C31_Witness ==
  /\ IsUndo(1) /\ pc[1] = "failed" /\ undone[1] /\ ~ctx[1].committed
  /\ pc[2] = "idle"
  /\ before[1] = Flat(<<I(1), I(2)>>)
  /\ cache = Flat(<<I(1), I(1), I(2)>>)


\* the number of places of a cache value that hold an item of the id
OccursId(c, id) ==
  Cardinality({t \in Places(c) : getIdFromItem(ItemAt(c, t), cfg.getId) = id})

\* every invocation is a create that succeeded, the server having given
\* them different ids that no cached item had
BothCreated ==
  /\ \A i \in Inv : op[i] = "create" /\ pc[i] = "succeeded"
  /\ \A i \in Inv : \A j \in Inv \ {i} : result[i].id # result[j].id
  /\ \A i \in Inv : \A x \in CacheItems(before[1]) : x.id # result[i].id

\* C32: two overlapping creates that both succeed end, whatever the
\* interleaving, with each created item in the cache once under its server
\* id, no temporary id left and every item cached at the start still
\* there; and the onSuccess of a create changes no item but the one with
\* its own temporary id
C32_OverlappingCreatesBothLand ==
  [][/\ BothCreated' =>
          /\ \A i \in Inv : OccursId(cache', result'[i].id) = 1
          /\ ~HoldsTempId(cache')
          /\ CacheItems(before'[1]) \subseteq CacheItems(cache')
          /\ Cardinality(Places(cache')) = Cardinality(Places(before'[1])) + Cardinality(Inv)
      /\ \A i \in Inv :
           (SuccessStep(i) /\ op[i] = "create" /\ cache.kind # "absent")
             => /\ Places(cache') = Places(cache)
                /\ \A t \in Places(cache) :
                     ItemAt(cache, t).id # ctx[i].tempId
                       => ItemAt(cache', t) = ItemAt(cache, t)]_vars_all

\* the second create began before the first succeeded and succeeded
\* first; both items are in the cache ahead of the two cached at the start
C32_Witness ==
  /\ BothCreated
  /\ before[1] = Flat(<<I(0), I(1)>>)
  /\ ctx[2].previousData # before[1]
  /\ \E x \in CacheItems(ctx[2].previousData) : x.id = ctx[1].tempId
  /\ Len(cache.items) = 4
  /\ cache.items[1].id = result[2].id /\ cache.items[2].id = result[1].id


\* the optimistic transform of invocation i's lifecycle applied to snap,
\* tempId being the temporary id a create was given
BeginTransform(i, snap, tempId) ==
  CASE op[i] = "create" ->
         setQueryData(snap, CreateApply(snap, OptimisticItem(i, tempId)))
    [] op[i] = "update" ->
         setQueryData(snap, UpdateApply(snap, UpdateTargetId(i), cfg.getId))
    [] op[i] = "delete" ->
         setQueryData(snap, DeleteApply(snap, DeleteTargetId(i), cfg.getId))
    [] OTHER ->
         IF UndoFindDeleted(snap, cfg.id, cfg.getId).has
         THEN setQueryData(snap, UndoRemoveApply(snap, cfg.id, cfg.getId))
         ELSE snap

\* C33: onMutate suspends only at cancelQueries, before it reads its
\* snapshot: the snapshot in the context is the value the key had when the
\* optimistic write was made, the value written is the lifecycle's
\* transform of that snapshot, and the step is no step of another
\* invocation, while writes of other handlers do fall between the call of
\* mutate and the snapshot
C33_SnapshotAndWriteAreOneStep ==
  [][\A i \in Inv :
       OnMutateStep(i)
         => /\ ctx'[i].previousData = cache
            /\ cache' = BeginTransform(i, ctx'[i].previousData, ctx'[i].tempId)
            /\ \A j \in Inv \ {i} : pc'[j] = pc[j] /\ ctx'[j] = ctx[j]]_vars_all

\* another invocation wrote while this one awaited cancelQueries: the
\* snapshot is not the value the key had when mutate was called
C33_Witness ==
  \E i \in Inv :
    /\ pc[i] = "begun" /\ op[i] = "create"
    /\ ctx[i].previousData # before[i]
    /\ cache = BeginTransform(i, ctx[i].previousData, ctx[i].tempId)


\* C34: addItemToInfiniteData has three outcomes.  No page: one page
\* holding the new item alone, and pageParams [undefined].  A first page
\* whose sequence extracts: the item is at index 0 of that sequence, the
\* wrapper and its other fields, the other pages and pageParams being as
\* they were.  A first page whose sequence does not extract: a new page
\* holding the item alone, ahead of the pages there were, themselves as
\* they were.
C34_PrependHasThreeOutcomes ==
  probe.fn = "addItemToInfiniteData"
    => LET d == probe.data
           x == probe.item
           r == probe.outData
       IN /\ r.kind = "infinite"
          /\ Len(d.pages) = 0
               => r.pages = <<ArrPage(<<x>>)>> /\ r.pageParams = <<Undefined>>
          /\ (Len(d.pages) > 0 /\ HasSeq(d.pages[1]))
               => /\ HeadOfFirstPage(d, r, x)
                  /\ r.pages[1] = WithSeq(d.pages[1], <<x>> \o PageSeq(d.pages[1]))
          /\ (Len(d.pages) > 0 /\ ~HasSeq(d.pages[1]))
               => /\ Len(r.pages) = Len(d.pages) + 1
                  /\ r.pages[1] = ArrPage(<<x>>)
                  /\ \A p \in 1..Len(d.pages) : r.pages[p + 1] = d.pages[p]

\* the three outcomes: on no page, on an object page with its array under
\* 'items', and on an object page with its array under 'posts'
C34_Witness ==
  /\ probe.fn = "addItemToInfiniteData"
  /\ Len(probe.data.pages) = 2
  /\ ~probe.data.pages[1].isArr
  /\ probe.data.pages[1].obj["items"] = ArrField(<<I(1), I(2)>>)
  /\ probe.outData.pages[1].obj["items"] = ArrField(<<I(3), I(1), I(2)>>)
  /\ probe.outData.pages[1].obj["total"] = ValField(3)

C34_WitnessNoPage ==
  /\ probe.fn = "addItemToInfiniteData"
  /\ Len(probe.data.pages) = 0
  /\ probe.outData = Infinite(<<ArrPage(<<I(3)>>)>>, <<Undefined>>)

C34_WitnessNewPage ==
  /\ probe.fn = "addItemToInfiniteData"
  /\ Len(probe.data.pages) = 1
  /\ probe.data.pages[1].obj["posts"] = ArrField(<<I(1)>>)
  /\ Len(probe.outData.pages) = 2
  /\ probe.outData.pages[2] = probe.data.pages[1]


\* C35: the onSuccess of create changes nothing in the cache but the id
\* field of the item whose resolved id is the temporary id, which becomes
\* the id of the server's item; every other field of that item is the
\* optimistic item's, whatever the server's item holds, and with the
\* default extractor the item so changed is the optimistic item
C35_ReconciliationWritesOnlyId ==
  [][\A i \in Inv :
       (SuccessStep(i) /\ op[i] = "create")
         => LET serverId == getIdFromItem(result'[i], cfg.getId)
            IN /\ Places(cache') = Places(cache)
               /\ \A t \in Places(cache) :
                    ItemAt(cache', t) =
                      IF getIdFromItem(ItemAt(cache, t), cfg.getId) = ctx[i].tempId
                      THEN [ItemAt(cache, t) EXCEPT !.id = serverId]
                      ELSE ItemAt(cache, t)
               /\ cfg.getId = "default"
                    => \E t \in Places(cache) :
                         /\ ItemAt(cache, t) = OptimisticItem(i, ctx[i].tempId)
                         /\ ItemAt(cache', t).id = result'[i].id
                         /\ ItemAt(cache', t).key = OptimisticItem(i, ctx[i].tempId).key
                         /\ ItemAt(cache', t).v = OptimisticItem(i, ctx[i].tempId).v]_vars_all

\* the server returned v = 9 for an item created with v = 1: the cached
\* item has the server's id and still v = 1
C35_Witness ==
  \E i \in Inv :
    /\ op[i] = "create" /\ pc[i] = "succeeded" /\ cfg.getId = "default"
    /\ vars[i].has /\ vars[i].item.v = 1
    /\ result[i].v = 9
    /\ before[i].kind = "flat"
    /\ cache.items[1] = [vars[i].item EXCEPT !.id = result[i].id]

(***************************************************************************)
(* C36.  The update lifecycle never changes how many items the cache holds *)
(* nor their order: across update's onMutate and across update's onSuccess *)
(* the entry keeps its shape (absent, flat or paginated) and has an item   *)
(* at exactly the same places as before; an absent entry stays absent.     *)
(***************************************************************************)
SamePlaces(c, d) == c.kind = d.kind /\ Places(c) = Places(d)

C36_UpdateKeepsCountAndOrder ==
  [][\A i \in Inv :
       (UpdateStep(i) \/ UpdateSuccessStep(i)) => SamePlaces(cache, cache')]_vars_all

\* what the code does keep: onMutate always keeps the places, and onSuccess
\* keeps them on an entry that exists; on an absent entry onSuccess writes
\* a one-item array holding the server's item
C36_UpdateKeepsPlacesOfExistingEntry ==
  [][\A i \in Inv :
       /\ UpdateStep(i) => SamePlaces(cache, cache')
       /\ UpdateSuccessStep(i) =>
            IF cache.kind = "absent"
              THEN cache' = Flat(<<result'[i]>>)
              ELSE SamePlaces(cache, cache')]_vars_all

C36_AbsentEntryFilledBySuccess ==
  \E i \in Inv :
    /\ op[i] = "update" /\ pc[i] = "succeeded"
    /\ before[i].kind = "absent"
    /\ cache.kind = "flat" /\ Len(cache.items) = 1

(***************************************************************************)
(* C37.  When identity resolution fails in onMutate or in onSuccess (the   *)
(* item passed to mutate, the server's item or a cached item the handler   *)
(* reaches has no id, and no getId is configured) the error leaves the     *)
(* handler uncaught and the cache entry is exactly what it was when the    *)
(* handler started: nothing partially transformed is written, no context   *)
(* is returned and no timer armed.                                         *)
(***************************************************************************)
HandlerStep(i) ==
  \/ pc[i] = "cancelling" /\ pc'[i] # "cancelling"
  \/ pc[i] = "inflight" /\ pc'[i] # "inflight"

ThrowStep(i) == HandlerStep(i) /\ pc'[i] = "threw"

LacksId(item) == item.id = Undefined

\* the entry exists and a transform reaches an item without id in it
CacheLacksId(c) == \E x \in ReachableItems(c) : LacksId(x)

\* cases in which the handler that starts is bound to resolve an id that
\* is not there
MustResolveMissingId(i) ==
  /\ cfg.getId = "default"
  /\ \/ /\ pc[i] = "cancelling"
        /\ \/ op[i] = "update" /\ vars[i].has /\ LacksId(vars[i].item)
           \/ op[i] \in {"update", "delete"} /\ CacheLacksId(cache)
           \/ op[i] = "deleteWithUndo" /\ cache.kind = "flat" /\ CacheLacksId(cache)
     \/ /\ pc[i] = "inflight"
        /\ op[i] \in {"create", "update"}
        /\ \/ LacksId(result'[i])
           \/ CacheLacksId(cache)

C37_InvalidItemLeavesCacheAsItWas ==
  [][\A i \in Inv :
       /\ (HandlerStep(i) /\ pc'[i] # "failed" /\ MustResolveMissingId(i)) => ThrowStep(i)
       /\ ThrowStep(i) =>
            /\ cfg.getId = "default"
            /\ cache' = cache
            /\ ctx' = ctx /\ timer' = timer /\ undoContext' = undoContext
            /\ \/ vars[i].has /\ LacksId(vars[i].item)
               \/ LacksId(result'[i])
               \/ CacheLacksId(cache)]_vars_all

\* onMutate of a delete threw at the item without id that comes after the
\* target, and the target is still in the cache
C37_Witness ==
  \E i \in Inv :
    /\ pc[i] = "threw" /\ op[i] = "delete"
    /\ vars[i].has /\ vars[i].id = Num(1)
    /\ ~ctx[i].exists
    /\ cache = Flat(<<I(1), NoIdItem>>)

\* onSuccess of a create threw at the server's item: the temp-id item is
\* still at the head
C37_WitnessSuccess ==
  \E i \in Inv :
    /\ pc[i] = "threw" /\ op[i] = "create" /\ ctx[i].exists
    /\ LacksId(result[i])
    /\ cache.kind = "flat" /\ Len(cache.items) = 3
    /\ cache.items[1].id = ctx[i].tempId

(***************************************************************************)
(* C38.  When the onMutate of a delete-with-undo does not find the item,   *)
(* it still returns a context, with no deleted item and committed false,   *)
(* it leaves the cache as it is, and the timer it arms changes the         *)
(* committed flag of no context when it fires.                             *)
(***************************************************************************)
\* the search of onMutate can find the id: an item of the flat array or of
\* an array page has it
Locatable(c, id) ==
  IF c.kind = "flat" THEN \E k \in 1..Len(c.items) : getIdFromItem(c.items[k], cfg.getId) = id
  ELSE IF c.kind = "infinite"
       THEN \E p \in 1..Len(c.pages) :
              /\ c.pages[p].isArr
              /\ \E k \in 1..Len(c.pages[p].seq) :
                   getIdFromItem(c.pages[p].seq[k], cfg.getId) = id
  ELSE FALSE

DeleteWithUndoStep(i) == OnMutateStep(i) /\ op[i] = "deleteWithUndo"

NothingDeleted(i) == ctx[i].exists /\ IsUndo(i) /\ ~ctx[i].deletedItem.has

C38_NotFoundBeginChangesNothing ==
  [][\A i \in Inv :
       /\ (DeleteWithUndoStep(i) /\ ~Locatable(cache, cfg.id)) =>
            /\ ctx'[i].exists
            /\ ~ctx'[i].deletedItem.has
            /\ ~ctx'[i].committed
            /\ cache' = cache
            /\ undoContext' = undoContext
       /\ (TimerStep(i) /\ NothingDeleted(i)) =>
            \A j \in Inv : ctx'[j].committed = ctx[j].committed]_vars_all

\* the second invocation did not find the item the first had removed; its
\* timer has fired and its context is not committed, while the first
\* invocation's timer is still pending
C38_Witness ==
  /\ ctx[1].exists /\ ctx[1].deletedItem.has /\ timer[1].state = "armed"
  /\ NothingDeleted(2)
  /\ timer[2].state = "fired"
  /\ ~ctx[1].committed /\ ~ctx[2].committed

(***************************************************************************)
(* C39.  A transform addressed to an id that no item has is the identity:  *)
(* replaceItemInArray, removeItemFromArray and replaceTempIdInArray return *)
(* an array equal to their input, and their InfiniteData counterparts      *)
(* return data equal to their input, with the same items in the same       *)
(* order, the same page wrappers and fields and the same pageParams.       *)
(***************************************************************************)
ByIdOnArray == {"replaceItemInArray", "removeItemFromArray", "replaceTempIdInArray"}

ByIdOnInfiniteData ==
  {"replaceItemInInfiniteData", "removeItemFromInfiniteData", "replaceTempIdInInfiniteData"}

\* no item of the array has the id
IdAbsentFromArray(array, id, getId) ==
  \A k \in 1..Len(array) : getIdFromItem(array[k], getId) # id

\* no item of the sequence of any page has the id
IdAbsentFromPages(data, id, getId) ==
  \A p \in 1..Len(data.pages) :
    HasSeq(data.pages[p]) => IdAbsentFromArray(PageSeq(data.pages[p]), id, getId)

C39_AbsentIdIsIdentity ==
  /\ (probe.fn \in ByIdOnArray /\ IdAbsentFromArray(probe.array, probe.id, probe.getId))
       => probe.out = probe.array
  /\ (probe.fn \in ByIdOnInfiniteData
        /\ IdAbsentFromPages(probe.data, probe.id, probe.getId))
       => /\ probe.outData = probe.data
          /\ probe.outData.pageParams = probe.data.pageParams
          /\ Places(probe.outData) = Places(probe.data)
          /\ \A t \in Places(probe.data) : ItemAt(probe.outData, t) = ItemAt(probe.data, t)

\* removal of an absent id from two pages, an object with the array under
\* 'items' beside a count and a plain array
C39_Witness ==
  /\ probe.fn = "removeItemFromInfiniteData"
  /\ probe.id = Num(3) /\ probe.getId = "default"
  /\ Len(probe.data.pages) = 2
  /\ ~probe.data.pages[1].isArr
  /\ probe.data.pages[1].obj["items"] = ArrField(<<I(1), I(2)>>)
  /\ probe.data.pages[1].obj["total"] = ValField(3)
  /\ probe.data.pages[2] = ArrPage(<<I(1)>>)
  /\ probe.outData = probe.data

\* replacement at an absent id in a flat array of three items
C39_WitnessFlat ==
  /\ probe.fn = "replaceItemInArray"
  /\ Len(probe.array) = 3
  /\ IdAbsentFromArray(probe.array, probe.id, probe.getId)
  /\ probe.out = probe.array

\* a temp id that no item has is looked for in pages
C39_WitnessTempId ==
  /\ probe.fn = "replaceTempIdInInfiniteData"
  /\ isTempId(probe.id)
  /\ Len(probe.data.pages) = 2
  /\ probe.data.pages[1].obj["posts"] = ArrField(<<I(1)>>)
  /\ probe.outData = probe.data

(***************************************************************************)
(* C40.  Every invocation of a delete-with-undo whose onMutate found the   *)
(* item ends, provided that an armed timer that is not cleared fires:      *)
(* from then on, sooner or later, its context has committed = true, or     *)
(* its write has failed and the snapshot was written back.                 *)
(***************************************************************************)
FoundAtBegin(i) == IsUndo(i) /\ ctx[i].exists /\ ctx[i].deletedItem.has

Ended(i) == ctx[i].committed \/ pc[i] = "failed"

C40_FoundInvocationEnds ==
  \A i \in Inv : [](FoundAtBegin(i) => <>Ended(i))

\* what the code does give: an invocation of an ambient bundle, whose
\* onMutate has a closure of its own, ends under the same scheduling
C40_OwnClosureInvocationEnds ==
  \A i \in Inv : []((FoundAtBegin(i) /\ Mode(i) = "ambient") => <>Ended(i))

\* and no invocation keeps an armed timer for ever
C40_NoTimerPendsForever ==
  \A i \in Inv : []<>(timer[i].state # "armed")

\* the first invocation was undone, the second found the item again and
\* took the closure: the first one's timer has fired, its write has
\* succeeded, and its context is still not committed
C40_LeftUncommitted ==
  /\ FoundAtBegin(1) /\ FoundAtBegin(2)
  /\ undone[1]
  /\ timer[1].state = "fired" /\ timer[2].state \in {"fired", "cleared"}
  /\ pc[1] = "succeeded" /\ pc[2] = "succeeded"
  /\ ~ctx[1].committed /\ ctx[2].committed

====
